---------------------------- MODULE Spec2Model ----------------------------
(***************************************************************************)
(* Option quote parser (parse_quotes_smo.py): the per-sender grammars, the *)
(* line classifier, the parse_file loop and the read_feed_files batch.     *)
(*                                                                         *)
(* A Python string is a sequence of one-character strings ("" is << >>).   *)
(* A Python object with dynamically created attributes is a function from  *)
(* the names of the attributes set so far to their values; reading an      *)
(* attribute outside its domain is an AttributeError.  An operator that    *)
(* models a method returns a record whose field exc names the exception    *)
(* raised (NoExc when the method returns).                                 *)
(***************************************************************************)
EXTENDS Integers, Sequences, FiniteSets, TLC

(***************************************************************************)
(* Bounds of the model.                                                    *)
(***************************************************************************)
\* lines read from the file of a one-file run (Spec)
MaxLines == 6
\* files the glob of read_feed_files yields (SpecBatch)
MaxFiles == 2
\* lines read by one run of read_feed_files on a batch (SpecBatch)
MaxBatchLines == 5
\* direct calls made on one QuoteParser session (SpecApi)
MaxCalls == 4

(***************************************************************************)
(* Python built-ins used by the parser.                                    *)
(***************************************************************************)
NoExc == "none"

\* the character U+00A0 (written '\xa0' in the source)
NBSP == "nbsp"

Digits == {"0", "1", "2", "3", "4", "5", "6", "7", "8", "9"}

IsDigit(c) == c \in Digits

\* str.isspace, which str.split() and str.strip() use, and the regex class \s
IsSpace(c) == c \in {" ", "\t", "\n", "\r", NBSP}

\* the least element of a non-empty set of integers
Min(S) == CHOOSE x \in S : \A y \in S : x <= y

\* the k-th element, in increasing order, of a set of integers
Nth(S, k) == CHOOSE x \in S : Cardinality({y \in S : y <= x}) = k

\* str.translate(table): table maps a character to its replacement, which in
\* every table of the parser is the empty string or one character
Translate(s, table) ==
    LET kept == SelectSeq(s, LAMBDA c : c \notin DOMAIN table \/ table[c] # << >>)
    IN  [i \in 1..Len(kept) |->
            IF kept[i] \in DOMAIN table THEN table[kept[i]][1] ELSE kept[i]]

\* str.replace(old, new) for a one-character new: the occurrences of old are
\* taken leftmost first and never overlap.  Overlapping occurrences of the
\* patterns the parser replaces ('  ' and ' / ') lie q apart in a chain, of
\* which the scan takes the first and then every k-th.
Replace(s, old, new) ==
    LET n == Len(old)
        occ == {i \in 1..(Len(s) - n + 1) : SubSeq(s, i, i + n - 1) = old}
        q == Min({d \in 1..n : d = n \/ SubSeq(old, d + 1, n) = SubSeq(old, 1, n - d)})
        k == (n + q - 1) \div q
        First(i) == Min({j \in occ : /\ j <= i
                                     /\ (i - j) % q = 0
                                     /\ \A m \in 0..((i - j) \div q) : j + m * q \in occ})
        taken == {i \in occ : ((i - First(i)) \div q) % k = 0}
        kept == SelectSeq([i \in 1..Len(s) |-> i],
                          LAMBDA i : ~\E t \in taken : t < i /\ i < t + n)
    IN  [j \in 1..Len(kept) |-> IF kept[j] \in taken THEN new[1] ELSE s[kept[j]]]

\* str.lstrip()
LStrip(s) ==
    IF \A i \in 1..Len(s) : IsSpace(s[i]) THEN << >>
    ELSE SubSeq(s, Min({i \in 1..Len(s) : ~IsSpace(s[i])}), Len(s))

\* str.strip()
Strip(s) ==
    IF \A i \in 1..Len(s) : IsSpace(s[i]) THEN << >>
    ELSE SubSeq(s, Min({i \in 1..Len(s) : ~IsSpace(s[i])}),
                   CHOOSE j \in 1..Len(s) :
                       ~IsSpace(s[j]) /\ \A k \in (j + 1)..Len(s) : IsSpace(s[k]))

\* str.split(): runs of whitespace separate the tokens, no empty token
Split(s) ==
    LET starts == {i \in 1..Len(s) : ~IsSpace(s[i]) /\ (i = 1 \/ IsSpace(s[i - 1]))}
        ends   == {i \in 1..Len(s) : ~IsSpace(s[i]) /\ (i = Len(s) \/ IsSpace(s[i + 1]))}
    IN  [k \in 1..Cardinality(starts) |-> SubSeq(s, Nth(starts, k), Nth(ends, k))]

\* str.split(sep) for a one-character sep: empty parts are kept
SplitSep(s, sep) ==
    LET at == {i \in 1..Len(s) : s[i] = sep}
    IN  [k \in 1..(Cardinality(at) + 1) |->
            SubSeq(s, Nth(at \cup {0}, k) + 1, Nth(at \cup {Len(s) + 1}, k) - 1)]

(***************************************************************************)
(* datetime.strptime / strftime for the formats the parser uses.  The      *)
(* date strings reach strptime through regex groups of fixed shape         *)
(* (\d{2}, \w{3}, \d{4}), so every directive reads a field of fixed width. *)
(***************************************************************************)
DigitVal(c) ==
    CASE c = "0" -> 0 [] c = "1" -> 1 [] c = "2" -> 2 [] c = "3" -> 3
      [] c = "4" -> 4 [] c = "5" -> 5 [] c = "6" -> 6 [] c = "7" -> 7
      [] c = "8" -> 8 [] c = "9" -> 9

\* int() of the digits of a field, which is two or four characters wide
IntOf(s) ==
    CASE Len(s) = 2 -> 10 * DigitVal(s[1]) + DigitVal(s[2])
      [] Len(s) = 4 -> 1000 * DigitVal(s[1]) + 100 * DigitVal(s[2])
                           + 10 * DigitVal(s[3]) + DigitVal(s[4])

AllDigits(s) == \A i \in 1..Len(s) : IsDigit(s[i])

DigitChar(n) == CHOOSE c \in Digits : DigitVal(c) = n

TwoDigits(n) == <<DigitChar((n \div 10) % 10), DigitChar(n % 10)>>

Upper == <<"A", "B", "C", "D", "E", "F", "G", "H", "I", "J", "K", "L", "M",
           "N", "O", "P", "Q", "R", "S", "T", "U", "V", "W", "X", "Y", "Z">>

Lower == <<"a", "b", "c", "d", "e", "f", "g", "h", "i", "j", "k", "l", "m",
           "n", "o", "p", "q", "r", "s", "t", "u", "v", "w", "x", "y", "z">>

ToLower(c) ==
    IF \E i \in 1..26 : Upper[i] = c THEN Lower[CHOOSE i \in 1..26 : Upper[i] = c] ELSE c

LowerStr(s) == [i \in 1..Len(s) |-> ToLower(s[i])]

\* %b in the C locale
MonthAbbr == << <<"J", "a", "n">>, <<"F", "e", "b">>, <<"M", "a", "r">>,
                <<"A", "p", "r">>, <<"M", "a", "y">>, <<"J", "u", "n">>,
                <<"J", "u", "l">>, <<"A", "u", "g">>, <<"S", "e", "p">>,
                <<"O", "c", "t">>, <<"N", "o", "v">>, <<"D", "e", "c">> >>

\* strptime matches month names without regard to case; 0 when s is none
MonthOfAbbr(s) ==
    IF \E m \in 1..12 : LowerStr(MonthAbbr[m]) = LowerStr(s)
    THEN CHOOSE m \in 1..12 : LowerStr(MonthAbbr[m]) = LowerStr(s)
    ELSE 0

IsLeap(y) == (y % 4 = 0 /\ y % 100 # 0) \/ y % 400 = 0

DaysIn(m, y) ==
    IF m = 2 THEN (IF IsLeap(y) THEN 29 ELSE 28)
    ELSE IF m \in {4, 6, 9, 11} THEN 30 ELSE 31

\* the width of the field a directive reads
FieldWidth(d) == CASE d = "Y" -> 4 [] d = "b" -> 3 [] OTHER -> 2

\* the text of a field is a value of its directive
FieldOk(d, txt) ==
    CASE d = "d" -> AllDigits(txt) /\ IntOf(txt) \in 1..31
      [] d = "m" -> AllDigits(txt) /\ IntOf(txt) \in 1..12
      [] d = "y" -> AllDigits(txt)
      [] d = "Y" -> AllDigits(txt) /\ IntOf(txt) >= 1
      [] d = "b" -> MonthOfAbbr(txt) # 0
      [] OTHER -> FALSE

\* dt.datetime.strptime(s, fmt): ValueError when s does not match fmt or names
\* a day the month does not have.  %y below 69 is a year of this century.
Strptime(s, fmt) ==
    LET \* the places of fmt where a directive or a literal character starts
        items == {i \in 1..Len(fmt) : fmt[i] = "%" \/ (i = 1 \/ fmt[i - 1] # "%")}
        Width(i) == IF fmt[i] = "%" THEN FieldWidth(fmt[i + 1]) ELSE 1
        \* the place of s where the text of item i starts
        Start(i) == 1 + Cardinality({p \in items \X (1..4) : p[1] < i /\ p[2] <= Width(p[1])})
        Text(i) == SubSeq(s, Start(i), Start(i) + Width(i) - 1)
        ok == /\ Start(Len(fmt) + 1) = Len(s) + 1
              /\ \A i \in items : IF fmt[i] = "%" THEN FieldOk(fmt[i + 1], Text(i))
                                                     ELSE Text(i) = <<fmt[i]>>
        Has(d) == \E i \in items : fmt[i] = "%" /\ fmt[i + 1] = d
        Field(d) == Text(CHOOSE i \in items : fmt[i] = "%" /\ fmt[i + 1] = d)
        day == IF Has("d") THEN IntOf(Field("d")) ELSE 1
        month == IF Has("m") THEN IntOf(Field("m"))
                 ELSE IF Has("b") THEN MonthOfAbbr(Field("b")) ELSE 1
        year == IF Has("Y") THEN IntOf(Field("Y"))
                ELSE IF Has("y")
                     THEN (IF IntOf(Field("y")) <= 68 THEN 2000 ELSE 1900) + IntOf(Field("y"))
                     ELSE 1900
    IN  IF ok /\ day <= DaysIn(month, year)
        THEN [exc |-> NoExc, d |-> day, m |-> month, y |-> year]
        ELSE [exc |-> "ValueError", d |-> 0, m |-> 0, y |-> 0]

\* datetime.strftime('%d-%b-%y')
Strftime(t) == TwoDigits(t.d) \o <<"-">> \o MonthAbbr[t.m] \o <<"-">> \o TwoDigits(t.y % 100)

\* '%m/%d/%y', the class attribute __header_date_format
HeaderDateFormat == <<"%", "m", "/", "%", "d", "/", "%", "y">>

(***************************************************************************)
(* Regular expressions.  A pattern is named by the class that owns it and  *)
(* its key in that class's dictionary.  The table_row patterns are         *)
(* evaluated on the text of the line; for the other patterns a line        *)
(* records, per pattern that matches it, the groupdict() of the match as   *)
(* the sequence of its <<name, value>> pairs in the pattern's group order. *)
(***************************************************************************)
StrategyClasses == {"ParserForXXX", "ParserForYYY", "ParserForZZZ", "ParserForWWW"}

\* a line no pattern other than a table_row pattern matches
NoMatches == [rx \in {} |-> << >>]

\* s without the blanks r'\ *' consumes at its start
SkipBlanks(s) ==
    IF \A i \in 1..Len(s) : s[i] = " " THEN << >>
    ELSE SubSeq(s, Min({i \in 1..Len(s) : s[i] # " "}), Len(s))

\* \d+.\d+ at the start of s ('.' is any character but a newline)
DigitsAnyDigits(s) ==
    \E k \in 1..Len(s) :
        /\ \A i \in 1..k : IsDigit(s[i])
        /\ k + 2 <= Len(s)
        /\ s[k + 1] # "\n"
        /\ IsDigit(s[k + 2])

\* r'^\ *\d+.\d+'
RxRowXXX(s) == DigitsAnyDigits(SkipBlanks(s))

\* r'^\ *\d+.\d+'
RxRowYYY(s) == DigitsAnyDigits(SkipBlanks(s))

\* r'^\s*\d+[.]?\d*'
RxRowZZZ(s) == LET t == LStrip(s) IN t # << >> /\ IsDigit(Head(t))

\* r'^\ *\d+[.]?\d*|^\ +\-\ +'
RxRowWWW(s) ==
    LET t == SkipBlanks(s)
    IN  \/ t # << >> /\ IsDigit(Head(t))
        \/ /\ Len(t) < Len(s)
           /\ Len(t) >= 2
           /\ t[1] = "-"
           /\ t[2] = " "

\* rx.search(line) is a match
Search(rx, line) ==
    IF rx[2] = "table_row"
    THEN CASE rx[1] = "ParserForXXX" -> RxRowXXX(line.text)
           [] rx[1] = "ParserForYYY" -> RxRowYYY(line.text)
           [] rx[1] = "ParserForZZZ" -> RxRowZZZ(line.text)
           [] rx[1] = "ParserForWWW" -> RxRowWWW(line.text)
    ELSE rx \in DOMAIN line.m

\* match.groupdict() of rx.search(line), as <<name, value>> pairs in group order
GroupDict(rx, line) == IF rx[2] = "table_row" THEN << >> ELSE line.m[rx]

\* match.group(name): IndexError when the pattern has no such group
Group(match, name) ==
    IF \E i \in 1..Len(match) : match[i][1] = name
    THEN [exc |-> NoExc, val |-> match[CHOOSE i \in 1..Len(match) : match[i][1] = name][2]]
    ELSE [exc |-> "IndexError", val |-> << >>]

\* From: XXX At: 12/14/21 09:15:02 UTC-5:00
H_XXX ==
    [text |-> <<"F", "r", "o", "m", ":", " ", "X", "X", "X", " ", "A", "t",
            ":", " ", "1", "2", "/", "1", "4", "/", "2", "1", " ", "0",
            "9", ":", "1", "5", ":", "0", "2", " ", "U", "T", "C", "-",
            "5", ":", "0", "0", "\n">>,
     m |-> <<"ParsingStrategy", "header">> :> << <<"firm_sender", <<"X",
            "X", "X">>>>, <<"date", <<"1", "2", "/", "1", "4", "/", "2",
            "1">>>>, <<"time", <<"0", "9", ":", "1", "5", ":", "0",
            "2">>>> >>]

\* From: YYY At: 12/14/21 09:20:41 UTC-5:00
H_YYY ==
    [text |-> <<"F", "r", "o", "m", ":", " ", "Y", "Y", "Y", " ", "A", "t",
            ":", " ", "1", "2", "/", "1", "4", "/", "2", "1", " ", "0",
            "9", ":", "2", "0", ":", "4", "1", " ", "U", "T", "C", "-",
            "5", ":", "0", "0", "\n">>,
     m |-> <<"ParsingStrategy", "header">> :> << <<"firm_sender", <<"Y",
            "Y", "Y">>>>, <<"date", <<"1", "2", "/", "1", "4", "/", "2",
            "1">>>>, <<"time", <<"0", "9", ":", "2", "0", ":", "4",
            "1">>>> >>]

\* From: ZZZ At: 12/14/21 10:02:13 UTC-5:00
H_ZZZ ==
    [text |-> <<"F", "r", "o", "m", ":", " ", "Z", "Z", "Z", " ", "A", "t",
            ":", " ", "1", "2", "/", "1", "4", "/", "2", "1", " ", "1",
            "0", ":", "0", "2", ":", "1", "3", " ", "U", "T", "C", "-",
            "5", ":", "0", "0", "\n">>,
     m |-> <<"ParsingStrategy", "header">> :> << <<"firm_sender", <<"Z",
            "Z", "Z">>>>, <<"date", <<"1", "2", "/", "1", "4", "/", "2",
            "1">>>>, <<"time", <<"1", "0", ":", "0", "2", ":", "1",
            "3">>>> >>]

\* From: WWW At: 12/14/21 11:30:00 UTC-5:00
H_WWW ==
    [text |-> <<"F", "r", "o", "m", ":", " ", "W", "W", "W", " ", "A", "t",
            ":", " ", "1", "2", "/", "1", "4", "/", "2", "1", " ", "1",
            "1", ":", "3", "0", ":", "0", "0", " ", "U", "T", "C", "-",
            "5", ":", "0", "0", "\n">>,
     m |-> <<"ParsingStrategy", "header">> :> << <<"firm_sender", <<"W",
            "W", "W">>>>, <<"date", <<"1", "2", "/", "1", "4", "/", "2",
            "1">>>>, <<"time", <<"1", "1", ":", "3", "0", ":", "0",
            "0">>>> >>]

\* From: QQQ At: 12/14/21 08:00:00 UTC-5:00
H_QQQ ==
    [text |-> <<"F", "r", "o", "m", ":", " ", "Q", "Q", "Q", " ", "A", "t",
            ":", " ", "1", "2", "/", "1", "4", "/", "2", "1", " ", "0",
            "8", ":", "0", "0", ":", "0", "0", " ", "U", "T", "C", "-",
            "5", ":", "0", "0", "\n">>,
     m |-> <<"ParsingStrategy", "header">> :> << <<"firm_sender", <<"Q",
            "Q", "Q">>>>, <<"date", <<"1", "2", "/", "1", "4", "/", "2",
            "1">>>>, <<"time", <<"0", "8", ":", "0", "0", ":", "0",
            "0">>>> >>]

\* From: XXX At: 13/45/21 09:15:02 UTC-5:00
H_BAD ==
    [text |-> <<"F", "r", "o", "m", ":", " ", "X", "X", "X", " ", "A", "t",
            ":", " ", "1", "3", "/", "4", "5", "/", "2", "1", " ", "0",
            "9", ":", "1", "5", ":", "0", "2", " ", "U", "T", "C", "-",
            "5", ":", "0", "0", "\n">>,
     m |-> <<"ParsingStrategy", "header">> :> << <<"firm_sender", <<"X",
            "X", "X">>>>, <<"date", <<"1", "3", "/", "4", "5", "/", "2",
            "1">>>>, <<"time", <<"0", "9", ":", "1", "5", ":", "0",
            "2">>>> >>]

\* envelope header lines: the four known senders, an unknown sender, a date strptime rejects
HeaderLines ==
    {H_XXX, H_YYY, H_ZZZ, H_WWW, H_QQQ, H_BAD}

\* Subject: HY37 5y SWAPTION UPDATE - Ref 108 (320.43)
S_1 ==
    [text |-> <<"S", "u", "b", "j", "e", "c", "t", ":", " ", "H", "Y", "3",
            "7", " ", "5", "y", " ", "S", "W", "A", "P", "T", "I", "O",
            "N", " ", "U", "P", "D", "A", "T", "E", " ", "-", " ", "R",
            "e", "f", " ", "1", "0", "8", " ", "(", "3", "2", "0", ".",
            "4", "3", ")", "\n">>,
     m |-> <<"ParserForXXX", "subject">> :> << <<"ref_px", <<"1", "0",
            "8">>>> >> @@ <<"ParserForYYY", "subject">> :> << <<"ref_px",
            <<"1", "0", "8">>>> >> @@ <<"ParserForWWW",
            "subject">> :> << <<"ref_px", <<"1", "0", "8">>>> >>]

\* Subject: $$ CDX OPTIONS: HY37 5Y UPDATE - REF 108.125
S_2 ==
    [text |-> <<"S", "u", "b", "j", "e", "c", "t", ":", " ", "$", "$", " ",
            "C", "D", "X", " ", "O", "P", "T", "I", "O", "N", "S", ":",
            " ", "H", "Y", "3", "7", " ", "5", "Y", " ", "U", "P", "D",
            "A", "T", "E", " ", "-", " ", "R", "E", "F", " ", "1", "0",
            "8", ".", "1", "2", "5", "\n">>,
     m |-> <<"ParserForXXX", "subject">> :> << <<"ref_px", <<"1", "0", "8",
            ".", "1", "2", "5">>>> >> @@ <<"ParserForYYY",
            "subject">> :> << <<"ref_px", <<"1", "0", "8", ".", "1", "2",
            "5">>>> >> @@ <<"ParserForWWW", "subject">> :> << <<"ref_px",
            <<"1", "0", "8", ".", "1", "2", "5">>>> >>]

\* subject lines
SubjectLines ==
    {S_1, S_2}

\* Expiry 15Dec21 (107.78 323.85)
E_XXX1 ==
    [text |-> <<"E", "x", "p", "i", "r", "y", " ", "1", "5", "D", "e", "c",
            "2", "1", " ", "(", "1", "0", "7", ".", "7", "8", " ", "3",
            "2", "3", ".", "8", "5", ")", "\n">>,
     m |-> <<"ParserForXXX", "table_expiry">> :> << <<"expiration_date",
            <<"1", "5", "D", "e", "c", "2", "1">>>> >>]

\* Expiry 19Jan22 (107.51 329.10)
E_XXX2 ==
    [text |-> <<"E", "x", "p", "i", "r", "y", " ", "1", "9", "J", "a", "n",
            "2", "2", " ", "(", "1", "0", "7", ".", "5", "1", " ", "3",
            "2", "9", ".", "1", "0", ")", "\n">>,
     m |-> <<"ParserForXXX", "table_expiry">> :> << <<"expiration_date",
            <<"1", "9", "J", "a", "n", "2", "2">>>> >>]

\* EXPIRY: 15-DEC-2021 Fwd 107.89 / 320.8 Dv01 4.67
E_YYY1 ==
    [text |-> <<"E", "X", "P", "I", "R", "Y", ":", " ", "1", "5", "-", "D",
            "E", "C", "-", "2", "0", "2", "1", " ", "F", "w", "d", " ",
            "1", "0", "7", ".", "8", "9", " ", "/", " ", "3", "2", "0",
            ".", "8", " ", "D", "v", "0", "1", " ", "4", ".", "6", "7",
            "\n">>,
     m |-> <<"ParserForYYY", "table_expiry">> :> << <<"expiration_date",
            <<"1", "5", "-", "D", "E", "C", "-", "2", "0", "2", "1">>>> >>]

\* EXPIRY: 19-JAN-2022 Fwd 107.62 / 326.1 Dv01 4.65
E_YYY2 ==
    [text |-> <<"E", "X", "P", "I", "R", "Y", ":", " ", "1", "9", "-", "J",
            "A", "N", "-", "2", "0", "2", "2", " ", "F", "w", "d", " ",
            "1", "0", "7", ".", "6", "2", " ", "/", " ", "3", "2", "6",
            ".", "1", " ", "D", "v", "0", "1", " ", "4", ".", "6", "5",
            "\n">>,
     m |-> <<"ParserForYYY", "table_expiry">> :> << <<"expiration_date",
            <<"1", "9", "-", "J", "A", "N", "-", "2", "0", "2", "2">>>> >>]

\* Exp: 15-Dec-21 Swaptions Ref: 108.1    CDX HY37
E_ZZZ1 ==
    [text |-> <<"E", "x", "p", ":", " ", "1", "5", "-", "D", "e", "c", "-",
            "2", "1", " ", "S", "w", "a", "p", "t", "i", "o", "n", "s",
            " ", "R", "e", "f", ":", " ", "1", "0", "8", ".", "1", " ",
            " ", " ", " ", "C", "D", "X", " ", "H", "Y", "3", "7", "\n">>,
     m |-> <<"ParserForZZZ", "table_expiry">> :> << <<"expiration_date",
            <<"1", "5", "-", "D", "e", "c", "-", "2", "1">>>>, <<"ref_px",
            <<"1", "0", "8", ".", "1">>>> >>]

\* Exp: 19-Jan-22 Swaptions Ref: 107.9    CDX HY37
E_ZZZ2 ==
    [text |-> <<"E", "x", "p", ":", " ", "1", "9", "-", "J", "a", "n", "-",
            "2", "2", " ", "S", "w", "a", "p", "t", "i", "o", "n", "s",
            " ", "R", "e", "f", ":", " ", "1", "0", "7", ".", "9", " ",
            " ", " ", " ", "C", "D", "X", " ", "H", "Y", "3", "7", "\n">>,
     m |-> <<"ParserForZZZ", "table_expiry">> :> << <<"expiration_date",
            <<"1", "9", "-", "J", "a", "n", "-", "2", "2">>>>, <<"ref_px",
            <<"1", "0", "7", ".", "9">>>> >>]

\* CDX Options: HY (S37V1) 15-Dec-21 ** Fwd @107.881, Delta @108.1
E_WWW1 ==
    [text |-> <<"C", "D", "X", " ", "O", "p", "t", "i", "o", "n", "s", ":",
            " ", "H", "Y", " ", "(", "S", "3", "7", "V", "1", ")", " ",
            "1", "5", "-", "D", "e", "c", "-", "2", "1", " ", "*", "*",
            " ", "F", "w", "d", " ", "@", "1", "0", "7", ".", "8", "8",
            "1", ",", " ", "D", "e", "l", "t", "a", " ", "@", "1", "0",
            "8", ".", "1", "\n">>,
     m |-> <<"ParserForWWW", "table_expiry">> :> << <<"expiration_date",
            <<"1", "5", "-", "D", "e", "c", "-", "2", "1">>>> >>]

\* CDX Options: HY (S37V1) 19-Jan-22 ** Fwd @107.602, Delta @108.1
E_WWW2 ==
    [text |-> <<"C", "D", "X", " ", "O", "p", "t", "i", "o", "n", "s", ":",
            " ", "H", "Y", " ", "(", "S", "3", "7", "V", "1", ")", " ",
            "1", "9", "-", "J", "a", "n", "-", "2", "2", " ", "*", "*",
            " ", "F", "w", "d", " ", "@", "1", "0", "7", ".", "6", "0",
            "2", ",", " ", "D", "e", "l", "t", "a", " ", "@", "1", "0",
            "8", ".", "1", "\n">>,
     m |-> <<"ParserForWWW", "table_expiry">> :> << <<"expiration_date",
            <<"1", "9", "-", "J", "a", "n", "-", "2", "2">>>> >>]

\* Expiry 31Feb22 (107.51 329.10)
E_BAD ==
    [text |-> <<"E", "x", "p", "i", "r", "y", " ", "3", "1", "F", "e", "b",
            "2", "2", " ", "(", "1", "0", "7", ".", "5", "1", " ", "3",
            "2", "9", ".", "1", "0", ")", "\n">>,
     m |-> <<"ParserForXXX", "table_expiry">> :> << <<"expiration_date",
            <<"3", "1", "F", "e", "b", "2", "2">>>> >>]

\* expiry lines in each sender's layout, and one whose date strptime rejects
ExpiryLines ==
    {E_XXX1, E_XXX2, E_YYY1, E_YYY2, E_ZZZ1, E_ZZZ2, E_WWW1, E_WWW2, E_BAD}

\* Stk   Sprd  |     Pay      Delta       Rec      Vol   Vol Chg  Vol Bpd  Tail  |
T_XXX ==
    [text |-> <<"S", "t", "k", " ", " ", " ", "S", "p", "r", "d", " ", " ",
            "|", " ", " ", " ", " ", " ", "P", "a", "y", " ", " ", " ",
            " ", " ", " ", "D", "e", "l", "t", "a", " ", " ", " ", " ",
            " ", " ", " ", "R", "e", "c", " ", " ", " ", " ", " ", " ",
            "V", "o", "l", " ", " ", " ", "V", "o", "l", " ", "C", "h",
            "g", " ", " ", "V", "o", "l", " ", "B", "p", "d", " ", " ",
            "T", "a", "i", "l", " ", " ", "|", "\n">>,
     m |-> <<"ParserForXXX", "table_header">> :> << <<"strike_px", <<"S",
            "t", "k">>>>, <<"strike_spd", <<"S", "p", "r", "d">>>>,
            <<"p_price", <<"P", "a", "y">>>>, <<"delta", <<"D", "e", "l",
            "t", "a">>>>, <<"c_price", <<"R", "e", "c">>>>, <<"iv_spd",
            <<"V", "o", "l">>>>, <<"vol_chg", <<"V", "o", "l", " ", "C",
            "h", "g">>>>, <<"iv_bps", <<"V", "o", "l", " ", "B", "p",
            "d">>>>, <<"tail", <<"T", "a", "i", "l">>>> >>]

\* K [~Sprd]  |DEC21>PAY   Dlt |DEC21>RCV   Dlt |MidVol [SprdVol] Chg    b/e
T_YYY ==
    [text |-> <<"K", " ", "[", "~", "S", "p", "r", "d", "]", " ", " ", "|",
            "D", "E", "C", "2", "1", ">", "P", "A", "Y", " ", " ", " ",
            "D", "l", "t", " ", "|", "D", "E", "C", "2", "1", ">", "R",
            "C", "V", " ", " ", " ", "D", "l", "t", " ", "|", "M", "i",
            "d", "V", "o", "l", " ", "[", "S", "p", "r", "d", "V", "o",
            "l", "]", " ", "C", "h", "g", " ", " ", " ", " ", "b", "/",
            "e", "\n">>,
     m |-> <<"ParserForYYY", "table_header">> :> << <<"strike_px",
            <<"K">>>>, <<"strike_spd", <<"S", "p", "r", "d">>>>,
            <<"p_bid_price", <<"D", "E", "C", "2", "1">>>>,
            <<"p_ask_price", <<"P", "A", "Y">>>>, <<"p_delta", <<"D", "l",
            "t">>>>, <<"c_bid_price", <<"D", "E", "C", "2", "1">>>>,
            <<"c_ask_price", <<"R", "C", "V">>>>, <<"c_delta", <<"D", "l",
            "t">>>>, <<"mid_vol", <<"M", "i", "d", "V", "o", "l">>>>,
            <<"iv_spd", <<"S", "p", "r", "d", "V", "o", "l">>>>, <<"chg",
            <<"C", "h", "g">>>>, <<"iv_bps", <<"b", "/", "e">>>> >>]

\*    K    |     Puts    Del |    Calls    Del |   Vol    Chg |  Prc Vol
T_ZZZ ==
    [text |-> <<" ", " ", " ", "K", " ", " ", " ", " ", "|", " ", " ", " ",
            " ", " ", "P", "u", "t", "s", " ", " ", " ", " ", "D", "e",
            "l", " ", "|", " ", " ", " ", " ", "C", "a", "l", "l", "s",
            " ", " ", " ", " ", "D", "e", "l", " ", "|", " ", " ", " ",
            "V", "o", "l", " ", " ", " ", " ", "C", "h", "g", " ", "|",
            " ", " ", "P", "r", "c", " ", "V", "o", "l", "\n">>,
     m |-> <<"ParserForZZZ", "table_header">> :> << <<"strike_px",
            <<"K">>>>, <<"p_price", <<"P", "u", "t", "s">>>>, <<"p_delta",
            <<"D", "e", "l">>>>, <<"c_price", <<"C", "a", "l", "l",
            "s">>>>, <<"c_delta", <<"D", "e", "l">>>>, <<"iv_spd", <<"V",
            "o", "l">>>>, <<"chg", <<"C", "h", "g">>>>, <<"iv_px", <<"P",
            "r", "c", " ", "V", "o", "l">>>> >>]

\*   K  |    Rec    Delta Vol  Chg B/E|   K  |     Pay     Delta Vol  Chg  B/E
T_WWW ==
    [text |-> <<" ", " ", "K", " ", " ", "|", " ", " ", " ", " ", "R", "e",
            "c", " ", " ", " ", " ", "D", "e", "l", "t", "a", " ", "V",
            "o", "l", " ", " ", "C", "h", "g", " ", "B", "/", "E", "|",
            " ", " ", " ", "K", " ", " ", "|", " ", " ", " ", " ", " ",
            "P", "a", "y", " ", " ", " ", " ", " ", "D", "e", "l", "t",
            "a", " ", "V", "o", "l", " ", " ", "C", "h", "g", " ", " ",
            "B", "/", "E", "\n">>,
     m |-> <<"ParserForWWW", "table_header">> :> << <<"c_strike_px",
            <<"K">>>>, <<"c_price", <<"R", "e", "c">>>>, <<"c_delta",
            <<"D", "e", "l", "t", "a">>>>, <<"c_iv_spd", <<"V", "o",
            "l">>>>, <<"c_chg", <<"C", "h", "g">>>>, <<"c_iv_bps", <<"B",
            "/", "E">>>>, <<"p_strike_px", <<"K">>>>, <<"p_price", <<"P",
            "a", "y">>>>, <<"p_delta", <<"D", "e", "l", "t", "a">>>>,
            <<"p_iv_spd", <<"V", "o", "l">>>>, <<"p_chg", <<"C", "h",
            "g">>>>, <<"p_iv_bps", <<"B", "/", "E">>>> >>]

\* 105   300   |     Pay      Delta       Rec      Vol   Vol Chg  Vol Bpd  Tail  |
T_XXX_NUM ==
    [text |-> <<"1", "0", "5", " ", " ", " ", "3", "0", "0", " ", " ", " ",
            "|", " ", " ", " ", " ", " ", "P", "a", "y", " ", " ", " ",
            " ", " ", " ", "D", "e", "l", "t", "a", " ", " ", " ", " ",
            " ", " ", " ", "R", "e", "c", " ", " ", " ", " ", " ", " ",
            "V", "o", "l", " ", " ", " ", "V", "o", "l", " ", "C", "h",
            "g", " ", " ", "V", "o", "l", " ", "B", "p", "d", " ", " ",
            "T", "a", "i", "l", " ", " ", "|", "\n">>,
     m |-> <<"ParserForXXX", "table_header">> :> << <<"strike_px", <<"1",
            "0", "5">>>>, <<"strike_spd", <<"3", "0", "0">>>>, <<"p_price",
            <<"P", "a", "y">>>>, <<"delta", <<"D", "e", "l", "t", "a">>>>,
            <<"c_price", <<"R", "e", "c">>>>, <<"iv_spd", <<"V", "o",
            "l">>>>, <<"vol_chg", <<"V", "o", "l", " ", "C", "h", "g">>>>,
            <<"iv_bps", <<"V", "o", "l", " ", "B", "p", "d">>>>, <<"tail",
            <<"T", "a", "i", "l">>>> >>]

\* table-header lines in each sender's layout, and one that starts like a row
TableHeaderLines ==
    {T_XXX, T_YYY, T_ZZZ, T_WWW, T_XXX_NUM}

\* 110.5 266.8 | 2.650/2.800  -99.9      --/--     30.2    1.6      6.2    99.9  |
R_XXX1 ==
    [text |-> <<"1", "1", "0", ".", "5", " ", "2", "6", "6", ".", "8", " ",
            "|", " ", "2", ".", "6", "5", "0", "/", "2", ".", "8", "0",
            "0", " ", " ", "-", "9", "9", ".", "9", " ", " ", " ", " ",
            " ", " ", "-", "-", "/", "-", "-", " ", " ", " ", " ", " ",
            "3", "0", ".", "2", " ", " ", " ", " ", "1", ".", "6", " ",
            " ", " ", " ", " ", " ", "6", ".", "2", " ", " ", " ", " ",
            "9", "9", ".", "9", " ", " ", "|", "\n">>,
     m |-> NoMatches]

\* 108.0 330.1 | 0.910/1.060  -62.4   0.330/0.480   38.5    1.4      7.9    12.3  |
R_XXX2 ==
    [text |-> <<"1", "0", "8", ".", "0", " ", "3", "3", "0", ".", "1", " ",
            "|", " ", "0", ".", "9", "1", "0", "/", "1", ".", "0", "6",
            "0", " ", " ", "-", "6", "2", ".", "4", " ", " ", " ", "0",
            ".", "3", "3", "0", "/", "0", ".", "4", "8", "0", " ", " ",
            " ", "3", "8", ".", "5", " ", " ", " ", " ", "1", ".", "4",
            " ", " ", " ", " ", " ", " ", "7", ".", "9", " ", " ", " ",
            " ", "1", "2", ".", "3", " ", " ", "|", "\n">>,
     m |-> NoMatches]

\* 109.5 [287] |155.5 170.5 95% |  0.0 9.6    5% |  4.5% [ 32%]    -1.3%  6.05
R_YYY1 ==
    [text |-> <<"1", "0", "9", ".", "5", " ", "[", "2", "8", "7", "]", " ",
            "|", "1", "5", "5", ".", "5", " ", "1", "7", "0", ".", "5",
            " ", "9", "5", "%", " ", "|", " ", " ", "0", ".", "0", " ",
            "9", ".", "6", " ", " ", " ", " ", "5", "%", " ", "|", " ",
            " ", "4", ".", "5", "%", " ", "[", " ", "3", "2", "%", "]",
            " ", " ", " ", " ", "-", "1", ".", "3", "%", " ", " ", "6",
            ".", "0", "5", "\n">>,
     m |-> NoMatches]

\* 107.0 [341] | 88.0 103.0 61% | 41.5 56.5   39% |  5.1% [ 36%]    -0.8%  7.40
R_YYY2 ==
    [text |-> <<"1", "0", "7", ".", "0", " ", "[", "3", "4", "1", "]", " ",
            "|", " ", "8", "8", ".", "0", " ", "1", "0", "3", ".", "0",
            " ", "6", "1", "%", " ", "|", " ", "4", "1", ".", "5", " ",
            "5", "6", ".", "5", " ", " ", " ", "3", "9", "%", " ", "|",
            " ", " ", "5", ".", "1", "%", " ", "[", " ", "3", "6", "%",
            "]", " ", " ", " ", " ", "-", "0", ".", "8", "%", " ", " ",
            "7", ".", "4", "0", "\n">>,
     m |-> NoMatches]

\*     108 |   52 /  70   55 |   40 /  58  -45 |  41.7   +1.5 |    6.1 
R_ZZZ1 ==
    [text |-> <<" ", " ", " ", " ", "1", "0", "8", " ", "|", " ", " ", " ",
            "5", "2", " ", "/", " ", " ", "7", "0", " ", " ", " ", "5",
            "5", " ", "|", " ", " ", " ", "4", "0", " ", "/", " ", " ",
            "5", "8", " ", " ", "-", "4", "5", " ", "|", " ", " ", "4",
            "1", ".", "7", " ", " ", " ", "+", "1", ".", "5", " ", "|",
            " ", " ", " ", " ", "6", ".", "1", " ", "\n">>,
     m |-> NoMatches]

\*   106.5 |   31 /  49   38 |   95 / 113  -62 |  44.2   +0.9 |    6.8 
R_ZZZ2 ==
    [text |-> <<" ", " ", "1", "0", "6", ".", "5", " ", "|", " ", " ", " ",
            "3", "1", " ", "/", " ", " ", "4", "9", " ", " ", " ", "3",
            "8", " ", "|", " ", " ", " ", "9", "5", " ", "/", " ", "1",
            "1", "3", " ", " ", "-", "6", "2", " ", "|", " ", " ", "4",
            "4", ".", "2", " ", " ", " ", "+", "0", ".", "9", " ", "|",
            " ", " ", " ", " ", "6", ".", "8", " ", "\n">>,
     m |-> NoMatches]

\*  111 |  0.0/10.0   0%   32  0.4 5.3|  109 | 114.1/130.1  86%   37 -0.1  6.8
R_WWW1 ==
    [text |-> <<" ", "1", "1", "1", " ", "|", " ", " ", "0", ".", "0", "/",
            "1", "0", ".", "0", " ", " ", " ", "0", "%", " ", " ", " ",
            "3", "2", " ", " ", "0", ".", "4", " ", "5", ".", "3", "|",
            " ", " ", "1", "0", "9", " ", "|", " ", "1", "1", "4", ".",
            "1", "/", "1", "3", "0", ".", "1", " ", " ", "8", "6", "%",
            " ", " ", " ", "3", "7", " ", "-", "0", ".", "1", " ", " ",
            "6", ".", "8", "\n">>,
     m |-> NoMatches]

\*  110 |  9.5/25.5  17%   35  0.2 5.6|  107 |  47.0/63.0   52%   39 -0.2  6.3
R_WWW2 ==
    [text |-> <<" ", "1", "1", "0", " ", "|", " ", " ", "9", ".", "5", "/",
            "2", "5", ".", "5", " ", " ", "1", "7", "%", " ", " ", " ",
            "3", "5", " ", " ", "0", ".", "2", " ", "5", ".", "6", "|",
            " ", " ", "1", "0", "7", " ", "|", " ", " ", "4", "7", ".",
            "0", "/", "6", "3", ".", "0", " ", " ", " ", "5", "2", "%",
            " ", " ", " ", "3", "9", " ", "-", "0", ".", "2", " ", " ",
            "6", ".", "3", "\n">>,
     m |-> NoMatches]

\*    - |   -/-      -    -    -   -|  106 |  28.3/44.3   39%   41 -0.3  5.9
R_WWW_DASH ==
    [text |-> <<" ", " ", " ", "-", " ", "|", " ", " ", " ", "-", "/", "-",
            " ", " ", " ", " ", " ", " ", "-", " ", " ", " ", " ", "-",
            " ", " ", " ", " ", "-", " ", " ", " ", "-", "|", " ", " ",
            "1", "0", "6", " ", "|", " ", " ", "2", "8", ".", "3", "/",
            "4", "4", ".", "3", " ", " ", " ", "3", "9", "%", " ", " ",
            " ", "4", "1", " ", "-", "0", ".", "3", " ", " ", "5", ".",
            "9", "\n">>,
     m |-> NoMatches]

\*    - |     -      -    -    -   -|  105 |  19.9/35.9   31%   43 -0.4  5.5
R_WWW_DASH1 ==
    [text |-> <<" ", " ", " ", "-", " ", "|", " ", " ", " ", " ", " ", "-",
            " ", " ", " ", " ", " ", " ", "-", " ", " ", " ", " ", "-",
            " ", " ", " ", " ", "-", " ", " ", " ", "-", "|", " ", " ",
            "1", "0", "5", " ", "|", " ", " ", "1", "9", ".", "9", "/",
            "3", "5", ".", "9", " ", " ", " ", "3", "1", "%", " ", " ",
            " ", "4", "3", " ", "-", "0", ".", "4", " ", " ", "5", ".",
            "5", "\n">>,
     m |-> NoMatches]

\*    - |                         |  104 |  13.2/29.2   24%   45 -0.5  5.1
R_WWW_DASHS ==
    [text |-> <<" ", " ", " ", "-", " ", "|", " ", " ", " ", " ", " ", " ",
            " ", " ", " ", " ", " ", " ", " ", " ", " ", " ", " ", " ",
            " ", " ", " ", " ", " ", " ", " ", "|", " ", " ", "1", "0",
            "4", " ", "|", " ", " ", "1", "3", ".", "2", "/", "2", "9",
            ".", "2", " ", " ", " ", "2", "4", "%", " ", " ", " ", "4",
            "5", " ", "-", "0", ".", "5", " ", " ", "5", ".", "1", "\n">>,
     m |-> NoMatches]

\* 110.5 266.8 |
R_SHORT ==
    [text |-> <<"1", "1", "0", ".", "5", " ", "2", "6", "6", ".", "8", " ",
            "|", "\n">>,
     m |-> NoMatches]

\* 109.0 301.5 | 1.7502.900  -81.0   0.120/0.270   33.9    1.5      7.0    55.1  |
R_XXX_BAD ==
    [text |-> <<"1", "0", "9", ".", "0", " ", "3", "0", "1", ".", "5", " ",
            "|", " ", "1", ".", "7", "5", "0", "2", ".", "9", "0", "0",
            " ", " ", "-", "8", "1", ".", "0", " ", " ", " ", "0", ".",
            "1", "2", "0", "/", "0", ".", "2", "7", "0", " ", " ", " ",
            "3", "3", ".", "9", " ", " ", " ", " ", "1", ".", "5", " ",
            " ", " ", " ", " ", " ", "7", ".", "0", " ", " ", " ", " ",
            "5", "5", ".", "1", " ", " ", "|", "\n">>,
     m |-> NoMatches]

\*     107 |   44 /   62   47 |   66 /  84  -53 |  42.9   +1.2 |    6.4 
R_ZZZ_BAD ==
    [text |-> <<" ", " ", " ", " ", "1", "0", "7", " ", "|", " ", " ", " ",
            "4", "4", " ", "/", " ", " ", " ", "6", "2", " ", " ", " ",
            "4", "7", " ", "|", " ", " ", " ", "6", "6", " ", "/", " ",
            " ", "8", "4", " ", " ", "-", "5", "3", " ", "|", " ", " ",
            "4", "2", ".", "9", " ", " ", " ", "+", "1", ".", "2", " ",
            "|", " ", " ", " ", " ", "6", ".", "4", " ", "\n">>,
     m |-> NoMatches]

\* table rows: two well-formed rows per layout, rows with a missing call leg, truncated and malformed rows
RowLines ==
    {R_XXX1, R_XXX2, R_YYY1, R_YYY2, R_ZZZ1, R_ZZZ2, R_WWW1, R_WWW2,
            R_WWW_DASH, R_WWW_DASH1, R_WWW_DASHS, R_SHORT, R_XXX_BAD,
            R_ZZZ_BAD}

\* 
X_BLANK ==
    [text |-> <<"\n">>,
     m |-> NoMatches]

\* text no pattern matches
OtherLines ==
    {X_BLANK}

\*  112 |  0.0/5.0    0%   30  0.5 5.0|    - |   -/-      -    -    -   -
R_WWW_NOPUT ==
    [text |-> <<" ", "1", "1", "2", " ", "|", " ", " ", "0", ".", "0", "/",
            "5", ".", "0", " ", " ", " ", " ", "0", "%", " ", " ", " ",
            "3", "0", " ", " ", "0", ".", "5", " ", "5", ".", "0", "|",
            " ", " ", " ", " ", "-", " ", "|", " ", " ", " ", "-", "/",
            "-", " ", " ", " ", " ", " ", " ", "-", " ", " ", " ", " ",
            "-", " ", " ", " ", " ", "-", " ", " ", " ", "-", "\n">>,
     m |-> NoMatches]

\* 108.5 [n/a] |120.0 135.0 80% |   --  --   20% |  4.8% [ 34%]    -1.0%  6.60
R_YYY_NA ==
    [text |-> <<"1", "0", "8", ".", "5", " ", "[", "n", "/", "a", "]", " ",
            "|", "1", "2", "0", ".", "0", " ", "1", "3", "5", ".", "0",
            " ", "8", "0", "%", " ", "|", " ", " ", " ", "-", "-", " ",
            " ", "-", "-", " ", " ", " ", "2", "0", "%", " ", "|", " ",
            " ", "4", ".", "8", "%", " ", "[", " ", "3", "4", "%", "]",
            " ", " ", " ", " ", "-", "1", ".", "0", "%", " ", " ", "6",
            ".", "6", "0", "\n">>,
     m |-> NoMatches]

Lines ==
    HeaderLines \cup SubjectLines \cup ExpiryLines \cup TableHeaderLines
        \cup RowLines \cup OtherLines

(***************************************************************************)
(* Objects.                                                                *)
(***************************************************************************)
\* a freshly constructed object of class cls: no attribute set yet
New(cls) == "class" :> cls

HasAttr(o, a) == a \in DOMAIN o

\* o.a = v
SetAttr(o, a, v) == (a :> v) @@ o

\* the value None
NoneObj == New("NoneType")

\* QuoteParser(): the attribute strategy is not set before set_strategy
Unbound == New("unset")

\* a value computed without an exception
Const(v) == [exc |-> NoExc, val |-> v]

(***************************************************************************)
(* class ProductQuote                                                      *)
(***************************************************************************)
\* the attributes get_values reads, in the order of the list it returns
ValueAttrs == <<"date", "time", "firm_sender", "expire_date", "option_type",
                "strike_px", "strike_spd", "bid_price", "ask_price", "delta",
                "iv_spd", "iv_bps", "iv_px", "ref_px">>

\* RowAttrs with a header-level attribute among those cleared after each row
RowAttrsAndTime == {"strike_px", "strike_spd", "option_type", "bid_price", "ask_price",
                    "delta", "iv_spd", "iv_bps", "iv_px", "time"}

\* the attributes reset_table_row_values clears
RowAttrs == {"strike_px", "strike_spd", "option_type", "bid_price", "ask_price",
             "delta", "iv_spd", "iv_bps", "iv_px"}

\* ProductQuote.reset_table_row_values
ResetTableRowValues(pq) ==
    [a \in DOMAIN pq \cup RowAttrs |-> IF a \in RowAttrs THEN << >> ELSE pq[a]]

\* ProductQuote.get_values: AttributeError when an attribute was never set
GetValues(pq) ==
    IF \A i \in 1..Len(ValueAttrs) : HasAttr(pq, ValueAttrs[i])
    THEN [exc |-> NoExc, val |-> [i \in 1..Len(ValueAttrs) |-> pq[ValueAttrs[i]]]]
    ELSE [exc |-> "AttributeError", val |-> << >>]

\* the position of a column of the list get_values returns
Column(a) == CHOOSE i \in 1..Len(ValueAttrs) : ValueAttrs[i] = a

(***************************************************************************)
(* Statements of the methods of a strategy.  r is the state of a method    *)
(* call under way: the exception raised so far, the strategy object self   *)
(* and the local list row_pair.  A statement after an exception does       *)
(* nothing.                                                                *)
(***************************************************************************)
Call(self) == [exc |-> NoExc, self |-> self, row_pair |-> << >>]

Raise(r, e) == [r EXCEPT !.exc = e]

\* self.pq.<a> = <v>: the right-hand side is evaluated first, then self.pq
AssignPq(r, a, v) ==
    IF r.exc # NoExc THEN r
    ELSE IF v.exc # NoExc THEN Raise(r, v.exc)
    ELSE IF ~HasAttr(r.self, "pq") THEN Raise(r, "AttributeError")
    ELSE [r EXCEPT !.self = SetAttr(r.self, "pq", SetAttr(r.self["pq"], a, v.val))]

\* Col with a missing token read as the empty string instead of an IndexError
ColOrEmpty(self, row_data, name) ==
    IF ~HasAttr(self, "col_idx") THEN [exc |-> "AttributeError", val |-> << >>]
    ELSE IF name \notin DOMAIN self["col_idx"] THEN [exc |-> "KeyError", val |-> << >>]
    ELSE IF self["col_idx"][name] + 1 > Len(row_data) THEN Const(<< >>)
         ELSE Const(row_data[self["col_idx"][name] + 1])

\* row_data[self.col_idx[name]]
Col(self, row_data, name) ==
    IF ~HasAttr(self, "col_idx") THEN [exc |-> "AttributeError", val |-> << >>]
    ELSE IF name \notin DOMAIN self["col_idx"] THEN [exc |-> "KeyError", val |-> << >>]
    ELSE IF self["col_idx"][name] + 1 > Len(row_data)
         THEN [exc |-> "IndexError", val |-> << >>]
         ELSE Const(row_data[self["col_idx"][name] + 1])

(***************************************************************************)
(* The body of an on_table_row method is straight-line code: a sequence of *)
(* statements, each of which either raises, ending the call with           *)
(* everything before it done, or assigns attributes of self.pq or appends  *)
(* to row_pair.                                                            *)
(***************************************************************************)
\* self.pq.<attr> = row_data[self.col_idx[<name>]]
SetCol(attr, name) == [op |-> "col", attr |-> attr, name |-> name, val |-> << >>]

\* self.pq.<attr> = <val>
SetConst(attr, val) == [op |-> "const", attr |-> attr, name |-> "", val |-> val]

\* self.pq.bid_price, self.pq.ask_price = row_data[self.col_idx[<name>]].split('/')
SetBidAsk(name) == [op |-> "bidask", attr |-> "", name |-> name, val |-> << >>]

\* the evaluation of row_data[self.col_idx[<name>]] in the condition of an if
TestCol(name) == [op |-> "test", attr |-> "", name |-> name, val |-> << >>]

\* row_pair.append(self.pq.get_values())
AppendGetValues == [op |-> "append", attr |-> "", name |-> "", val |-> << >>]

\* self.pq.reset_table_row_values()
CallReset == [op |-> "reset", attr |-> "", name |-> "", val |-> << >>]

\* the attributes of self.pq a statement assigns
Targets(st) ==
    CASE st.op \in {"col", "const"} -> {st.attr}
      [] st.op = "bidask" -> {"bid_price", "ask_price"}
      [] st.op = "reset" -> RowAttrs
      [] OTHER -> {}

\* the value a statement that does not raise assigns to attribute a
Assigned(st, a, self, row_data) ==
    CASE st.op = "col" -> Col(self, row_data, st.name).val
      [] st.op = "const" -> st.val
      [] st.op = "bidask" ->
             SplitSep(Col(self, row_data, st.name).val, "/")[IF a = "bid_price" THEN 1 ELSE 2]
      [] st.op = "reset" -> ResetTableRowValues(New("ProductQuote"))[a]

\* the exception a statement raises when the attributes in have are set on
\* self.pq: the right-hand side is evaluated first, then self.pq is read
Raises(st, have, self, row_data) ==
    LET c == Col(self, row_data, st.name)
        noPq == IF HasAttr(self, "pq") THEN NoExc ELSE "AttributeError"
    IN  CASE st.op = "col" -> IF c.exc # NoExc THEN c.exc ELSE noPq
          [] st.op = "test" -> c.exc
          [] st.op = "bidask" ->
                 IF c.exc # NoExc THEN c.exc
                 ELSE IF Len(SplitSep(c.val, "/")) # 2 THEN "ValueError" ELSE noPq
          [] st.op = "append" ->
                 IF noPq # NoExc THEN noPq
                 ELSE IF \A i \in 1..Len(ValueAttrs) : ValueAttrs[i] \in have
                      THEN NoExc ELSE "AttributeError"
          [] OTHER -> noPq

\* the statements stmts executed in order on self
Exec(self, row_data, stmts) ==
    LET pq0 == IF HasAttr(self, "pq") THEN self["pq"] ELSE New("ProductQuote")
        \* the attributes set before statement k
        Have(k) == DOMAIN pq0 \cup UNION {Targets(stmts[j]) : j \in 1..(k - 1)}
        failing == {k \in 1..Len(stmts) : Raises(stmts[k], Have(k), self, row_data) # NoExc}
        \* the number of statements executed without an exception
        done == IF failing = {} THEN Len(stmts) ELSE Min(failing) - 1
        \* the value of attribute a after the first k statements
        After(k, a) ==
            LET js == {j \in 1..k : a \in Targets(stmts[j])}
            IN  IF js = {} THEN pq0[a]
                ELSE Assigned(stmts[CHOOSE j \in js : \A i \in js : i <= j], a, self, row_data)
        appends == {k \in 1..done : stmts[k].op = "append"}
    IN  [exc |-> IF failing = {} THEN NoExc
                 ELSE Raises(stmts[Min(failing)], Have(Min(failing)), self, row_data),
         self |-> IF HasAttr(self, "pq")
                  THEN SetAttr(self, "pq", [a \in Have(done + 1) |-> After(done, a)])
                  ELSE self,
         row_pair |-> [i \in 1..Cardinality(appends) |->
                          [c \in 1..Len(ValueAttrs) |->
                              After(Nth(appends, i) - 1, ValueAttrs[c])]]]

(***************************************************************************)
(* class ParsingStrategy: the bodies the four variants reach by super().   *)
(***************************************************************************)
\* the header dictionary with a row pattern after the header pattern
GetHeaderRxDictAndRow == << <<"ParsingStrategy", "header">>, <<"ParserForXXX", "table_row">> >>

\* get_header_rx_dict(): the dictionary's patterns in key order
GetHeaderRxDict == << <<"ParsingStrategy", "header">> >>

\* self.exp_date_format, set by the variant's __init__
ExpDateFormat(cls) ==
    CASE cls = "ParserForXXX" -> <<"%", "d", "%", "b", "%", "y">>
      [] cls = "ParserForYYY" -> <<"%", "d", "-", "%", "b", "-", "%", "Y">>
      [] cls = "ParserForZZZ" -> <<"%", "d", "-", "%", "b", "-", "%", "y">>
      [] cls = "ParserForWWW" -> <<"%", "d", "-", "%", "b", "-", "%", "y">>

\* self.translate_dict, set by the variant's __init__
TranslateDict(cls) ==
    CASE cls = "ParserForXXX" -> [c \in {"|", "-"} |-> << >>]
      [] cls = "ParserForYYY" -> [c \in {"|", "[", "]", "%"} |-> << >>]
      [] cls = "ParserForZZZ" ->
             [c \in {"|", "[", "]", NBSP} |-> IF c = NBSP THEN <<" ">> ELSE << >>]
      [] cls = "ParserForWWW" -> [c \in {"|", "%"} |-> << >>]

\* strptime(<v>, fmt).strftime('%d-%b-%y')
Canonical(v, fmt) ==
    IF v.exc # NoExc THEN v
    ELSE LET t == Strptime(v.val, fmt)
         IN  IF t.exc # NoExc THEN [exc |-> t.exc, val |-> << >>] ELSE Const(Strftime(t))

\* on_header making a template whose expiration and reference price are
\* the empty string from the start
OnHeaderBaseWithDefaults(self, match) ==
    LET pq == SetAttr(SetAttr(New("ProductQuote"), "expire_date", << >>), "ref_px", << >>)
        r0 == Call(SetAttr(self, "pq", pq))
        r1 == AssignPq(r0, "firm_sender", Group(match, "firm_sender"))
        r2 == AssignPq(r1, "date", Canonical(Group(match, "date"), HeaderDateFormat))
    IN  AssignPq(r2, "time", Group(match, "time"))

\* ParsingStrategy.on_header
OnHeaderBase(self, match) ==
    LET r0 == Call(SetAttr(self, "pq", New("ProductQuote")))
        r1 == AssignPq(r0, "firm_sender", Group(match, "firm_sender"))
        r2 == AssignPq(r1, "date", Canonical(Group(match, "date"), HeaderDateFormat))
    IN  AssignPq(r2, "time", Group(match, "time"))

\* ParsingStrategy.on_subject
OnSubjectBase(self, match) == AssignPq(Call(self), "ref_px", Group(match, "ref_px"))

\* ParsingStrategy.on_expiry
OnExpiryBase(self, match) ==
    AssignPq(Call(self), "expire_date",
             Canonical(Group(match, "expiration_date"), ExpDateFormat(self["class"])))

\* ParsingStrategy.on_table_header: a new dict, each group name -> its position
OnTableHeaderBase(self, match) ==
    LET names == {match[i][1] : i \in 1..Len(match)}
        idx == [n \in names |-> (CHOOSE i \in 1..Len(match) : match[i][1] = n) - 1]
    IN  [Call(self) EXCEPT !.self = SetAttr(self, "col_idx", idx)]

(***************************************************************************)
(* The four variants.                                                      *)
(***************************************************************************)
\* ParserForXXX.__rx_dict, in key order
RxDictXXX == << <<"ParserForXXX", "subject">>, <<"ParserForXXX", "table_expiry">>,
                <<"ParserForXXX", "table_header">>, <<"ParserForXXX", "table_row">> >>

\* ParserForYYY.__rx_dict, in key order
RxDictYYY == << <<"ParserForYYY", "subject">>, <<"ParserForYYY", "table_expiry">>,
                <<"ParserForYYY", "table_header">>, <<"ParserForYYY", "table_row">> >>

\* ParserForZZZ.__rx_dict, in key order: no subject pattern
RxDictZZZ == << <<"ParserForZZZ", "table_expiry">>, <<"ParserForZZZ", "table_header">>,
                <<"ParserForZZZ", "table_row">> >>

\* ParserForWWW.__rx_dict, in key order
RxDictWWW == << <<"ParserForWWW", "subject">>, <<"ParserForWWW", "table_expiry">>,
                <<"ParserForWWW", "table_header">>, <<"ParserForWWW", "table_row">> >>

\* row_data of ParserForXXX.on_table_row
RowDataXXX(line) == Split(Translate(line, TranslateDict("ParserForXXX")))

\* row_data of ParserForYYY.on_table_row
RowDataYYY(line) == Split(Translate(line, TranslateDict("ParserForYYY")))

\* row_data of ParserForZZZ.on_table_row
RowDataZZZ(line) ==
    Split(Strip(Replace(Replace(Translate(line, TranslateDict("ParserForZZZ")),
                                <<" ", " ">>, <<" ">>),
                        <<" ", "/", " ">>, <<"/">>)))

\* row_data of ParserForWWW.on_table_row
RowDataWWW(line) == Split(Strip(Translate(line, TranslateDict("ParserForWWW"))))

\* the statements of ParserForXXX.on_table_row after row_data is computed
StmtsXXX ==
    << SetCol("strike_px", "strike_px"),
       SetCol("strike_spd", "strike_spd"),
       SetCol("delta", "delta"),
       SetCol("iv_spd", "iv_spd"),
       SetCol("iv_bps", "iv_bps"),
       SetConst("iv_px", << >>),
       SetConst("option_type", <<"P">>),
       SetBidAsk("p_price"),
       AppendGetValues,
       SetConst("option_type", <<"C">>),
       SetBidAsk("c_price"),
       AppendGetValues,
       CallReset >>

\* ParserForXXX.on_table_row
OnTableRowXXX(self, line) == Exec(self, RowDataXXX(line), StmtsXXX)

\* StmtsYYY without the assignment of 'C' to option_type before the call leg
StmtsYYYOneSide ==
    << SetCol("strike_px", "strike_px"),
       SetCol("strike_spd", "strike_spd"),
       SetConst("delta", << >>),
       SetCol("iv_spd", "iv_spd"),
       SetCol("iv_bps", "iv_bps"),
       SetConst("iv_px", << >>),
       SetConst("option_type", <<"P">>),
       SetCol("bid_price", "p_bid_price"),
       SetCol("ask_price", "p_ask_price"),
       SetCol("delta", "p_delta"),
       AppendGetValues,
       SetCol("bid_price", "c_bid_price"),
       SetCol("ask_price", "c_ask_price"),
       SetCol("delta", "c_delta"),
       AppendGetValues,
       CallReset >>

\* the statements of ParserForYYY.on_table_row after row_data is computed
StmtsYYY ==
    << SetCol("strike_px", "strike_px"),
       SetCol("strike_spd", "strike_spd"),
       SetConst("delta", << >>),
       SetCol("iv_spd", "iv_spd"),
       SetCol("iv_bps", "iv_bps"),
       SetConst("iv_px", << >>),
       SetConst("option_type", <<"P">>),
       SetCol("bid_price", "p_bid_price"),
       SetCol("ask_price", "p_ask_price"),
       SetCol("delta", "p_delta"),
       AppendGetValues,
       SetConst("option_type", <<"C">>),
       SetCol("bid_price", "c_bid_price"),
       SetCol("ask_price", "c_ask_price"),
       SetCol("delta", "c_delta"),
       AppendGetValues,
       CallReset >>

\* ParserForYYY.on_table_row
OnTableRowYYY(self, line) == Exec(self, RowDataYYY(line), StmtsYYY)

\* the statements of ParserForZZZ.on_table_row after row_data is computed
StmtsZZZ ==
    << SetCol("strike_px", "strike_px"),
       SetConst("strike_spd", << >>),
       SetConst("delta", << >>),
       SetCol("iv_spd", "iv_spd"),
       SetConst("iv_bps", << >>),
       SetCol("iv_px", "iv_px"),
       SetConst("option_type", <<"P">>),
       SetCol("delta", "p_delta"),
       SetBidAsk("p_price"),
       AppendGetValues,
       SetConst("option_type", <<"C">>),
       SetCol("delta", "c_delta"),
       SetBidAsk("c_price"),
       AppendGetValues,
       CallReset >>

\* ParserForZZZ.on_table_row
OnTableRowZZZ(self, line) == Exec(self, RowDataZZZ(line), StmtsZZZ)

\* ParserForWWW.on_table_row: the branch taken when the call strike is not '-'
CallLegWWW ==
    << SetBidAsk("c_price"),
       SetCol("strike_px", "c_strike_px"),
       SetCol("delta", "c_delta"),
       SetCol("iv_spd", "c_iv_spd"),
       SetCol("iv_bps", "c_iv_bps"),
       AppendGetValues >>

\* NoCallLegWWW clearing the prices only: strike, delta and vols keep the
\* values of the put leg
NoCallLegWWWPricesOnly ==
    << SetConst("bid_price", << >>),
       SetConst("ask_price", << >>),
       AppendGetValues >>

\* ParserForWWW.on_table_row: the else branch, for the placeholder '-'
NoCallLegWWW ==
    << SetConst("bid_price", << >>),
       SetConst("ask_price", << >>),
       SetConst("strike_px", << >>),
       SetConst("delta", << >>),
       SetConst("iv_spd", << >>),
       SetConst("iv_bps", << >>),
       AppendGetValues >>

\* StmtsWWW with the call leg decoded before the put leg, the placeholder
\* branch assigning nothing and no reset of the template after the row
StmtsWWWCallFirst(self, row_data) ==
    LET c == Col(self, row_data, "c_strike_px")
    IN  << SetConst("strike_spd", << >>),
           SetConst("iv_px", << >>),
           SetConst("option_type", <<"C">>),
           TestCol("c_strike_px") >>
        \o (IF c.exc = NoExc /\ c.val = <<"-">> THEN << AppendGetValues >> ELSE CallLegWWW)
        \o << SetConst("option_type", <<"P">>),
              SetBidAsk("p_price"),
              SetCol("strike_px", "p_strike_px"),
              SetCol("delta", "p_delta"),
              SetCol("iv_spd", "p_iv_spd"),
              SetCol("iv_bps", "p_iv_bps"),
              AppendGetValues >>

\* the statements of ParserForWWW.on_table_row after row_data is computed
StmtsWWW(self, row_data) ==
    LET c == Col(self, row_data, "c_strike_px")
    IN  << SetConst("strike_spd", << >>),
           SetConst("iv_px", << >>),
           SetConst("option_type", <<"P">>),
           SetBidAsk("p_price"),
           SetCol("strike_px", "p_strike_px"),
           SetCol("delta", "p_delta"),
           SetCol("iv_spd", "p_iv_spd"),
           SetCol("iv_bps", "p_iv_bps"),
           AppendGetValues,
           SetConst("option_type", <<"C">>),
           TestCol("c_strike_px") >>
        \o (IF c.exc = NoExc /\ c.val = <<"-">> THEN NoCallLegWWW ELSE CallLegWWW)
        \o << CallReset >>

\* ParserForWWW.on_table_row
OnTableRowWWW(self, line) ==
    Exec(self, RowDataWWW(line), StmtsWWW(self, RowDataWWW(line)))

(***************************************************************************)
(* class QuoteParser: every method delegates to self.strategy.             *)
(***************************************************************************)
\* the object has the variant methods
IsStrategy(strategy) == strategy["class"] \in StrategyClasses

NoMethod(strategy) == Raise(Call(strategy), "AttributeError")

\* get_rx_dict returning the header pattern followed by the variant's patterns
GetRxDictExtended(strategy) ==
    GetHeaderRxDict \o
        (CASE strategy["class"] = "ParserForXXX" -> RxDictXXX
           [] strategy["class"] = "ParserForYYY" -> RxDictYYY
           [] strategy["class"] = "ParserForZZZ" -> RxDictZZZ
           [] strategy["class"] = "ParserForWWW" -> RxDictWWW)

\* QuoteParser.get_rx_dict -> <variant>.get_rx_dict
GetRxDict(strategy) ==
    CASE strategy["class"] = "ParserForXXX" -> RxDictXXX
      [] strategy["class"] = "ParserForYYY" -> RxDictYYY
      [] strategy["class"] = "ParserForZZZ" -> RxDictZZZ
      [] strategy["class"] = "ParserForWWW" -> RxDictWWW

\* QuoteParser.on_header -> <variant>.on_header -> super().on_header
OnHeader(strategy, match) ==
    IF IsStrategy(strategy) THEN OnHeaderBase(strategy, match) ELSE NoMethod(strategy)

\* QuoteParser.on_subject -> <variant>.on_subject -> super().on_subject
OnSubject(strategy, match) ==
    IF IsStrategy(strategy) THEN OnSubjectBase(strategy, match) ELSE NoMethod(strategy)

\* QuoteParser.on_expiry -> <variant>.on_expiry; ParserForZZZ also reads ref_px
OnExpiry(strategy, match) ==
    IF ~IsStrategy(strategy) THEN NoMethod(strategy)
    ELSE IF strategy["class"] = "ParserForZZZ"
         THEN AssignPq(OnExpiryBase(strategy, match), "ref_px", Group(match, "ref_px"))
         ELSE OnExpiryBase(strategy, match)

\* QuoteParser.on_table_header -> <variant>.on_table_header -> super()
OnTableHeader(strategy, match) ==
    IF IsStrategy(strategy) THEN OnTableHeaderBase(strategy, match) ELSE NoMethod(strategy)

\* QuoteParser.on_table_row -> <variant>.on_table_row
OnTableRow(strategy, line) ==
    CASE strategy["class"] = "ParserForXXX" -> OnTableRowXXX(strategy, line)
      [] strategy["class"] = "ParserForYYY" -> OnTableRowYYY(strategy, line)
      [] strategy["class"] = "ParserForZZZ" -> OnTableRowZZZ(strategy, line)
      [] strategy["class"] = "ParserForWWW" -> OnTableRowWWW(strategy, line)
      [] OTHER -> NoMethod(strategy)

(***************************************************************************)
(* parse_line, get_parser                                                  *)
(***************************************************************************)
NoKey == "None"

\* parse_line returning the last pattern of the dict that matches
ParseLineLast(regex_dict, line) ==
    IF \E i \in 1..Len(regex_dict) : Search(regex_dict[i], line)
    THEN LET i == CHOOSE j \in 1..Len(regex_dict) :
                      /\ Search(regex_dict[j], line)
                      /\ \A k \in (j + 1)..Len(regex_dict) : ~Search(regex_dict[k], line)
         IN  [key |-> regex_dict[i][2], match |-> GroupDict(regex_dict[i], line)]
    ELSE [key |-> NoKey, match |-> << >>]

\* parse_line: the first pattern of regex_dict, in key order, that matches
ParseLine(regex_dict, line) ==
    IF \E i \in 1..Len(regex_dict) : Search(regex_dict[i], line)
    THEN LET i == CHOOSE j \in 1..Len(regex_dict) :
                      /\ Search(regex_dict[j], line)
                      /\ \A k \in 1..(j - 1) : ~Search(regex_dict[k], line)
         IN  [key |-> regex_dict[i][2], match |-> GroupDict(regex_dict[i], line)]
    ELSE [key |-> NoKey, match |-> << >>]

\* get_parser falling back to a grammar for a sender it does not know
GetParserDefault(firm_sender) ==
    CASE firm_sender = <<"X", "X", "X">> -> New("ParserForXXX")
      [] firm_sender = <<"Y", "Y", "Y">> -> New("ParserForYYY")
      [] firm_sender = <<"Z", "Z", "Z">> -> New("ParserForZZZ")
      [] firm_sender = <<"W", "W", "W">> -> New("ParserForWWW")
      [] OTHER -> New("ParserForXXX")

\* get_parser
GetParser(firm_sender) ==
    CASE firm_sender = <<"X", "X", "X">> -> New("ParserForXXX")
      [] firm_sender = <<"Y", "Y", "Y">> -> New("ParserForYYY")
      [] firm_sender = <<"Z", "Z", "Z">> -> New("ParserForZZZ")
      [] firm_sender = <<"W", "W", "W">> -> New("ParserForWWW")
      [] OTHER -> NoneObj

(***************************************************************************)
(* State.  read_feed_files: all_data, the number of files the glob yields  *)
(* and of those opened; parse_file: its locals (parser.strategy is the     *)
(* variable strategy); pc is the place of the run, exc the exception that  *)
(* ended it.                                                               *)
(***************************************************************************)
VARIABLES all_data, nfiles, fileno, nread, pc, exc,
          file_rows, matched_table_header, strategy, curr_regex_dict,
          line, key, row_pair, ncalls

vars == <<all_data, nfiles, fileno, nread, pc, exc, file_rows, matched_table_header,
          strategy, curr_regex_dict, line, key, row_pair, ncalls>>

\* the loop variable line before the first iteration
NoLine == [text |-> << >>, m |-> NoMatches]

\* the locals of parse_file as one record
Locals ==
    [file_rows |-> file_rows, matched_table_header |-> matched_table_header,
     strategy |-> strategy, curr_regex_dict |-> curr_regex_dict,
     line |-> line, key |-> key, row_pair |-> row_pair, pc |-> pc, exc |-> exc]

\* parse_file starting on the list of rows the call before it returned
ParseFileEntryKeepRows ==
    [file_rows |-> file_rows, matched_table_header |-> FALSE,
     strategy |-> Unbound, curr_regex_dict |-> GetHeaderRxDict,
     line |-> NoLine, key |-> NoKey, row_pair |-> << >>, pc |-> "loop", exc |-> NoExc]

\* parse_file, before the loop
ParseFileEntry ==
    [file_rows |-> << >>, matched_table_header |-> FALSE,
     strategy |-> Unbound, curr_regex_dict |-> GetHeaderRxDict,
     line |-> NoLine, key |-> NoKey, row_pair |-> << >>, pc |-> "loop", exc |-> NoExc]

\* Branch with the table_row branch written as the final else of the chain
BranchRowElse(k, matched) ==
    CASE k = NoKey -> "continue"
      [] k = "header" -> "header"
      [] k = "subject" -> "subject"
      [] k = "table_expiry" -> "table_expiry"
      [] k = "table_header" /\ matched = FALSE -> "table_header"
      [] OTHER -> "table_row"

\* the branch of the if/elif chain the loop body takes
Branch(k, matched) ==
    CASE k = NoKey -> "continue"
      [] k = "header" -> "header"
      [] k = "subject" -> "subject"
      [] k = "table_expiry" -> "table_expiry"
      [] k = "table_header" /\ matched = FALSE -> "table_header"
      [] k = "table_row" -> "table_row"
      [] OTHER -> "continue"

\* the locals after a handler call r that assigns nothing else
AfterCall(loc, r) ==
    IF r.exc # NoExc
    THEN [loc EXCEPT !.strategy = r.self, !.pc = "raised", !.exc = r.exc]
    ELSE [loc EXCEPT !.strategy = r.self]

\* the header branch: an unknown sender breaks out of the loop
HeaderBranch(loc, match) ==
    LET fs == Group(match, "firm_sender")
        parser_strategy == GetParser(fs.val)
        r == OnHeader(parser_strategy, match)
    IN  IF parser_strategy = NoneObj THEN [loc EXCEPT !.pc = "returned"]
        ELSE IF r.exc # NoExc THEN AfterCall(loc, r)
        ELSE [loc EXCEPT !.strategy = r.self, !.curr_regex_dict = GetRxDict(r.self)]

\* the table_header branch
TableHeaderBranch(loc, match) ==
    LET r == OnTableHeader(loc.strategy, match)
    IN  IF r.exc # NoExc THEN AfterCall(loc, r)
        ELSE [loc EXCEPT !.strategy = r.self, !.matched_table_header = TRUE]

\* the table_row branch with both records of the pair one object, which
\* shows the values of the Call leg
TableRowBranchAliased(loc) ==
    LET r == OnTableRow(loc.strategy, loc.line.text)
        pair == [i \in 1..Len(r.row_pair) |-> r.row_pair[Len(r.row_pair)]]
    IN  IF r.exc # NoExc THEN AfterCall(loc, r)
        ELSE [loc EXCEPT !.strategy = r.self, !.row_pair = pair,
                         !.file_rows = @ \o pair]

\* the table_row branch
TableRowBranch(loc) ==
    LET r == OnTableRow(loc.strategy, loc.line.text)
    IN  IF r.exc # NoExc THEN AfterCall(loc, r)
        ELSE [loc EXCEPT !.strategy = r.self, !.row_pair = r.row_pair,
                         !.file_rows = @ \o r.row_pair]

\* the loop body clearing the table-header flag on a line it skips
LoopBodyRearm(loc, ln) ==
    LET p == ParseLine(loc.curr_regex_dict, ln)
        b == Branch(p.key, loc.matched_table_header)
        l == [loc EXCEPT !.line = ln, !.key = p.key]
    IN  CASE b = "header" -> HeaderBranch(l, p.match)
          [] b = "subject" -> AfterCall(l, OnSubject(l.strategy, p.match))
          [] b = "table_expiry" -> AfterCall(l, OnExpiry(l.strategy, p.match))
          [] b = "table_header" -> TableHeaderBranch(l, p.match)
          [] b = "table_row" -> TableRowBranch(l)
          [] OTHER -> [l EXCEPT !.matched_table_header = FALSE]

\* one iteration of the loop of parse_file
LoopBody(loc, ln) ==
    LET p == ParseLine(loc.curr_regex_dict, ln)
        b == Branch(p.key, loc.matched_table_header)
        l == [loc EXCEPT !.line = ln, !.key = p.key]
    IN  CASE b = "header" -> HeaderBranch(l, p.match)
          [] b = "subject" -> AfterCall(l, OnSubject(l.strategy, p.match))
          [] b = "table_expiry" -> AfterCall(l, OnExpiry(l.strategy, p.match))
          [] b = "table_header" -> TableHeaderBranch(l, p.match)
          [] b = "table_row" -> TableRowBranch(l)
          [] OTHER -> l

SetLocals(loc) ==
    /\ file_rows' = loc.file_rows
    /\ matched_table_header' = loc.matched_table_header
    /\ strategy' = loc.strategy
    /\ curr_regex_dict' = loc.curr_regex_dict
    /\ line' = loc.line
    /\ key' = loc.key
    /\ row_pair' = loc.row_pair
    /\ pc' = loc.pc
    /\ exc' = loc.exc

\* the state shared by every run before read_feed_files opens a file
Start ==
    /\ all_data = << >>
    /\ fileno = 0
    /\ nread = 0
    /\ ncalls = 0
    /\ exc = NoExc
    /\ file_rows = << >>
    /\ matched_table_header = FALSE
    /\ strategy = Unbound
    /\ curr_regex_dict = GetHeaderRxDict
    /\ line = NoLine
    /\ key = NoKey
    /\ row_pair = << >>

\* read_feed_files on a directory where the glob yields one file
Init ==
    /\ Start
    /\ pc = "idle"
    /\ nfiles = 1

\* read_feed_files opens the next file of the glob and calls parse_file
ReadFeedOpen ==
    /\ pc = "idle"
    /\ fileno < nfiles
    /\ fileno' = fileno + 1
    /\ SetLocals(ParseFileEntry)
    /\ UNCHANGED <<all_data, nfiles, nread, ncalls>>

\* parse_file handles the next line of the file; an exception leaves
\* parse_file and read_feed_files, which catch nothing
ParseFileLine(ln) ==
    /\ pc = "loop"
    /\ nread < MaxLines
    /\ nread' = nread + 1
    /\ SetLocals(LoopBody(Locals, ln))
    /\ UNCHANGED <<all_data, nfiles, fileno, ncalls>>

\* the file has no more lines: parse_file returns file_rows
ParseFileEof ==
    /\ pc = "loop"
    /\ pc' = "returned"
    /\ UNCHANGED <<all_data, nfiles, fileno, nread, exc, file_rows, matched_table_header,
                   strategy, curr_regex_dict, line, key, row_pair, ncalls>>

\* read_feed_files: all_data.extend(file_rows); file.close()
ReadFeedExtend ==
    /\ pc = "returned"
    /\ all_data' = all_data \o file_rows
    /\ pc' = "idle"
    /\ matched_table_header' = FALSE
    /\ strategy' = Unbound
    /\ curr_regex_dict' = GetHeaderRxDict
    /\ line' = NoLine
    /\ key' = NoKey
    /\ row_pair' = << >>
    /\ UNCHANGED <<nfiles, fileno, nread, exc, file_rows, ncalls>>

\* the glob has no more files: read_feed_files returns the frame of all_data
ReadFeedReturn ==
    /\ pc = "idle"
    /\ fileno = nfiles
    /\ pc' = "done"
    /\ UNCHANGED <<all_data, nfiles, fileno, nread, exc, file_rows, matched_table_header,
                   strategy, curr_regex_dict, line, key, row_pair, ncalls>>

Next ==
    \/ ReadFeedOpen
    \/ \E ln \in Lines : ParseFileLine(ln)
    \/ ParseFileEof
    \/ ReadFeedExtend
    \/ ReadFeedReturn

Spec == Init /\ [][Next]_vars

(***************************************************************************)
(* read_feed_files on a batch of files.                                    *)
(***************************************************************************)
\* the glob yields any number of files
InitBatch ==
    /\ Start
    /\ pc = "idle"
    /\ nfiles \in 0..MaxFiles

\* parse_file handles the next line of the file of the batch it reads
BatchFileLine(ln) ==
    /\ nread < MaxBatchLines
    /\ ParseFileLine(ln)

NextBatch ==
    \/ ReadFeedOpen
    \/ \E ln \in Lines : BatchFileLine(ln)
    \/ ParseFileEof
    \/ ReadFeedExtend
    \/ ReadFeedReturn

SpecBatch == InitBatch /\ [][NextBatch]_vars

(***************************************************************************)
(* A session of direct calls on one QuoteParser: set_strategy with what    *)
(* get_parser returns, then the handlers in any order, each with a match   *)
(* of a pattern of its kind.  The caller goes on after an exception; exc   *)
(* is the exception of the last call.                                      *)
(***************************************************************************)
\* the matches of the patterns with key k, of any class, on the lines
Matches(k) == {ln.m[rx] : <<ln, rx>> \in {p \in Lines \X (StrategyClasses \X {k}) :
                                            p[2] \in DOMAIN p[1].m}}

\* the session after the call r of the handler with key k
Called(k, r) ==
    /\ pc = "session"
    /\ ncalls < MaxCalls
    /\ ncalls' = ncalls + 1
    /\ strategy' = r.self
    /\ exc' = r.exc
    /\ key' = k
    /\ row_pair' = r.row_pair
    /\ UNCHANGED <<all_data, nfiles, fileno, nread, pc, file_rows,
                   matched_table_header, curr_regex_dict, line>>

InitApi ==
    /\ Start
    /\ pc = "session"
    /\ nfiles = 0

\* parser.set_strategy(get_parser(firm_sender))
SetStrategy(firm_sender) ==
    /\ pc = "session"
    /\ ncalls < MaxCalls
    /\ ncalls' = ncalls + 1
    /\ strategy' = GetParser(firm_sender)
    /\ exc' = NoExc
    /\ key' = NoKey
    /\ UNCHANGED <<all_data, nfiles, fileno, nread, pc, file_rows,
                   matched_table_header, curr_regex_dict, line, row_pair>>

\* parser.on_header(match)
CallOnHeader(ln) ==
    Called("header", OnHeader(strategy, ln.m[<<"ParsingStrategy", "header">>]))

\* parser.on_subject(match)
CallOnSubject(match) == Called("subject", OnSubject(strategy, match))

\* parser.on_expiry(match)
CallOnExpiry(match) == Called("table_expiry", OnExpiry(strategy, match))

\* parser.on_table_header(match)
CallOnTableHeader(match) == Called("table_header", OnTableHeader(strategy, match))

\* parser.on_table_row(line)
CallOnTableRow(ln) == Called("table_row", OnTableRow(strategy, ln.text))

NextApi ==
    \/ \E ln \in HeaderLines : SetStrategy(Group(ln.m[<<"ParsingStrategy", "header">>],
                                                 "firm_sender").val)
    \/ \E ln \in HeaderLines : CallOnHeader(ln)
    \/ \E match \in Matches("subject") : CallOnSubject(match)
    \/ \E match \in Matches("table_expiry") : CallOnExpiry(match)
    \/ \E match \in Matches("table_header") : CallOnTableHeader(match)
    \/ \E ln \in RowLines : CallOnTableRow(ln)

SpecApi == InitApi /\ [][NextApi]_vars

(***************************************************************************)
(* transform_data.  A cell of the frame is the text get_values put there   *)
(* until pd.to_numeric(errors='coerce') replaces it by a float64, which is *)
(* modelled by the decimal n / 10^k it is read from (k least), or by NaN.  *)
(***************************************************************************)
\* files the frame handed to transform_data was collected from (SpecMain)
MaxFrameFiles == 2

NaN == [nan |-> TRUE, n |-> 0, k |-> 0]

\* the number n / 10^k, with trailing zeros of the fraction dropped
Num(n, k) ==
    LET t == CHOOSE j \in 0..k : /\ n % (10 ^ j) = 0
                                 /\ \A i \in (j + 1)..k : n % (10 ^ i) # 0
    IN  [nan |-> FALSE, n |-> n \div (10 ^ t), k |-> k - t]

\* int() of a string of digits ('' counts 0)
RECURSIVE NatOf(_)
NatOf(s) ==
    IF s = << >> THEN 0
    ELSE 10 * NatOf(SubSeq(s, 1, Len(s) - 1)) + DigitVal(s[Len(s)])

\* the text is a decimal numeral: an optional sign, digits with at most one
\* point among them, one digit at least
IsNumeral(s) ==
    LET body == IF s # << >> /\ s[1] \in {"+", "-"} THEN Tail(s) ELSE s
    IN  /\ \A i \in 1..Len(body) : IsDigit(body[i]) \/ body[i] = "."
        /\ Cardinality({i \in 1..Len(body) : body[i] = "."}) <= 1
        /\ \E i \in 1..Len(body) : IsDigit(body[i])

\* float() of a decimal numeral
Numeral(s) ==
    LET body == IF s[1] \in {"+", "-"} THEN Tail(s) ELSE s
        k == IF \E i \in 1..Len(body) : body[i] = "."
             THEN Len(body) - (CHOOSE i \in 1..Len(body) : body[i] = ".")
             ELSE 0
        mag == Num(NatOf(SelectSeq(body, IsDigit)), k)
    IN  IF s[1] = "-" THEN [mag EXCEPT !.n = 0 - @] ELSE mag

\* to_numeric reading text that is no numeral as zero
ToNumericOrZero(s) == IF IsNumeral(s) THEN Numeral(s) ELSE Num(0, 0)

\* pd.to_numeric(cell, errors='coerce') on the text of a cell: text that is
\* no numeral (the empty string, '-', '--', 'n/a') is coerced to NaN
ToNumeric(s) == IF IsNumeral(s) THEN Numeral(s) ELSE NaN

\* x / 100 on a float64: NaN / 100 is NaN
Div100(x) == IF x.nan THEN NaN ELSE Num(x.n, x.k + 2)

\* the columns transform_data converts, in the order it converts them
NumericColumns == <<"strike_px", "strike_spd", "bid_price", "ask_price", "delta",
                    "ref_px", "iv_spd", "iv_bps", "iv_px">>

\* df[col] = pd.to_numeric(df[col], errors='coerce') for every numeric column
Coerce(df) ==
    [i \in 1..Len(df) |->
        [c \in 1..Len(ValueAttrs) |->
            IF \E j \in 1..Len(NumericColumns) : NumericColumns[j] = ValueAttrs[c]
            THEN ToNumeric(df[i][c]) ELSE df[i][c]]]

\* mask = df['Firm'] != 'XXX'
Mask(df) == [i \in 1..Len(df) |-> df[i][Column("firm_sender")] # <<"X", "X", "X">>]

\* the price column divided by 100 on every row, whatever the mask
RescaleAll(df, mask, a) ==
    [i \in 1..Len(df) |-> [df[i] EXCEPT ![Column(a)] = Div100(@)]]

\* df.loc[mask, col] = df[mask].apply(lambda x: x[col] / 100, axis=1): the
\* result of apply is aligned on the rows the mask selects
Rescale(df, mask, a) ==
    [i \in 1..Len(df) |-> IF mask[i] THEN [df[i] EXCEPT ![Column(a)] = Div100(@)] ELSE df[i]]

\* transform_data(df); the frame is changed in place
TransformData(df) ==
    LET numeric == Coerce(df)
        mask == Mask(numeric)
    IN  Rescale(Rescale(numeric, mask, "bid_price"), mask, "ask_price")

(***************************************************************************)
(* main: read_feed_files on a directory of files of five lines (header,    *)
(* subject, expiry, table header, one row) of any senders, and then        *)
(* transform_data on the frame of all_data.                                *)
(***************************************************************************)
\* the files the glob may yield: one row under each sender's layout
FrameFiles ==
    {<<H_XXX, S_1, E_XXX1, T_XXX, r>> : r \in {R_XXX1, R_XXX2}}
        \cup {<<H_YYY, S_2, E_YYY1, T_YYY, r>> : r \in {R_YYY1, R_YYY2, R_YYY_NA}}
        \cup {<<H_ZZZ, S_1, E_ZZZ1, T_ZZZ, r>> : r \in {R_ZZZ1, R_ZZZ2}}
        \cup {<<H_WWW, S_1, E_WWW1, T_WWW, r>> :
                  r \in {R_WWW1, R_WWW2, R_WWW_DASH, R_WWW_DASH1, R_WWW_NOPUT}}

\* the class get_parser gives for the sender the header of the file names
HeaderClass(f) ==
    GetParser(Group(f[1].m[<<"ParsingStrategy", "header">>], "firm_sender").val).class

\* main calls read_feed_files
InitMain ==
    /\ Start
    /\ pc = "idle"
    /\ nfiles \in 0..MaxFrameFiles

\* parse_file handles the next line of the file f it reads: f is a file
\* whose header bound the strategy
FrameFileLine(f) ==
    /\ pc = "loop"
    /\ nread < Len(f) * fileno
    /\ nread > Len(f) * (fileno - 1) => HeaderClass(f) = strategy.class
    /\ nread' = nread + 1
    /\ SetLocals(LoopBody(Locals, f[nread - Len(f) * (fileno - 1) + 1]))
    /\ UNCHANGED <<all_data, nfiles, fileno, ncalls>>

\* the file has no more lines
FrameFileEof ==
    /\ \E f \in FrameFiles : nread = Len(f) * fileno
    /\ ParseFileEof

\* main: transform_data(df)
MainTransform ==
    /\ pc = "done"
    /\ all_data' = TransformData(all_data)
    /\ pc' = "transformed"
    /\ UNCHANGED <<nfiles, fileno, nread, exc, file_rows, matched_table_header,
                   strategy, curr_regex_dict, line, key, row_pair, ncalls>>

NextMain ==
    \/ ReadFeedOpen
    \/ \E f \in FrameFiles : FrameFileLine(f)
    \/ FrameFileEof
    \/ ReadFeedExtend
    \/ ReadFeedReturn
    \/ MainTransform

SpecMain == InitMain /\ [][NextMain]_vars

(***************************************************************************)
(* Properties.                                                             *)
(***************************************************************************)
\* the field a of a record get_values returned
FieldOf(rec, a) == rec[Column(a)]

\* the value of attribute a of the template self.pq, "unset" when the strategy
\* has no template or the template has no such attribute
TemplateValue(s, a) ==
    IF HasAttr(s, "pq") /\ HasAttr(s["pq"], a) THEN s["pq"][a] ELSE "unset"

\* a step of parse_file that handles one line and classifies it as k
Handled(k) == pc = "loop" /\ nread' = nread + 1 /\ key' = k

\* the records a step appends to the output of parse_file
Appended == {i \in 1..Len(file_rows') : i > Len(file_rows)}

\* the well-formed example rows of a grammar
OwnRows(cls) ==
    CASE cls = "ParserForXXX" -> {R_XXX1, R_XXX2}
      [] cls = "ParserForYYY" -> {R_YYY1, R_YYY2}
      [] cls = "ParserForZZZ" -> {R_ZZZ1, R_ZZZ2}
      [] cls = "ParserForWWW" -> {R_WWW1, R_WWW2}

\* the table-header line of a grammar
OwnTableHeader(cls) ==
    CASE cls = "ParserForXXX" -> T_XXX
      [] cls = "ParserForYYY" -> T_YYY
      [] cls = "ParserForZZZ" -> T_ZZZ
      [] cls = "ParserForWWW" -> T_WWW

\* C1 as stated: when parse_file returns, all records of the file carry the
\* same date, time, sender, expiration and reference price.
C1_AllFiveFieldsAgree ==
    pc = "returned" =>
        \A i, j \in 1..Len(file_rows) :
            \A a \in {"date", "time", "firm_sender", "expire_date", "ref_px"} :
                FieldOf(file_rows[i], a) = FieldOf(file_rows[j], a)

\* C1 amended: all records of a file carry the same date, time and sender;
\* the expiration and the reference price of a record are those the template
\* held when its row was handled, and the template's expiration changes only
\* at an expiry line, its reference price only at a subject line or (ZZZ) an
\* expiry line.
C1_HeaderFieldsAgree ==
    [][/\ \A i \in Appended :
              /\ \A a \in {"date", "time", "firm_sender"} :
                     FieldOf(file_rows'[i], a) = FieldOf(file_rows'[1], a)
              /\ \A a \in {"expire_date", "ref_px"} :
                     FieldOf(file_rows'[i], a) = TemplateValue(strategy, a)
       /\ (pc = "loop" /\ IsStrategy(strategy) /\ pc' = "loop")
          => (/\ (TemplateValue(strategy', "expire_date") # TemplateValue(strategy, "expire_date"))
                     => (key' = "table_expiry")
              /\ (TemplateValue(strategy', "ref_px") # TemplateValue(strategy, "ref_px"))
                     => (key' \in {"subject", "table_expiry"})
              /\ \A a \in {"date", "time", "firm_sender"} :
                     TemplateValue(strategy', a) = TemplateValue(strategy, a))]_vars

\* C1 witness: a file returned records of two rows that agree on date, time
\* and sender and differ in expiration and reference price.
C1_Witness ==
    /\ pc = "returned"
    /\ Len(file_rows) = 4
    /\ FieldOf(file_rows[1], "date") = FieldOf(file_rows[3], "date")
    /\ FieldOf(file_rows[1], "expire_date") # FieldOf(file_rows[3], "expire_date")
    /\ FieldOf(file_rows[1], "ref_px") # FieldOf(file_rows[3], "ref_px")

\* C2 as stated: the third line of a file whose first two lines were a header
\* of a known sender and that grammar's table-header line, when it is a
\* well-formed row of that grammar, is decoded without an exception into
\* exactly two records, a Put and a Call.
C2_ThreeLineFile ==
    [][(/\ pc = "loop"
        /\ nread = 2
        /\ IsStrategy(strategy)
        /\ matched_table_header
        /\ line = OwnTableHeader(strategy["class"])
        /\ nread' = 3
        /\ line' \in OwnRows(strategy["class"]))
       => /\ pc' = "loop"
          /\ exc' = NoExc
          /\ Len(file_rows') = 2
          /\ FieldOf(file_rows'[1], "option_type") = <<"P">>
          /\ FieldOf(file_rows'[2], "option_type") = <<"C">>]_vars

\* C3: in parse_file, a line classified as table_header after the first one
\* has been handled changes neither the column-index map, the template and
\* the grammar (all held by the strategy), nor the active patterns, the flag
\* and the output, and raises nothing.
C3_LaterTableHeaderIgnored ==
    [][(Handled("table_header") /\ matched_table_header)
       => /\ strategy' = strategy
          /\ curr_regex_dict' = curr_regex_dict
          /\ matched_table_header'
          /\ file_rows' = file_rows
          /\ pc' = "loop"
          /\ exc' = NoExc]_vars

\* C3 witness: a line was classified as table_header after rows had been
\* decoded with the map of the first table-header line.
C3_Witness ==
    /\ pc = "loop"
    /\ key = "table_header"
    /\ matched_table_header
    /\ Len(file_rows) = 2
    /\ HasAttr(strategy, "col_idx")

\* C4 as stated: a call of on_table_header on a session whose grammar
\* instance already holds a column-index map leaves that map as it is.
C4_FirstLayoutStays ==
    [][(/\ pc = "session"
        /\ ncalls' = ncalls + 1
        /\ key' = "table_header"
        /\ HasAttr(strategy, "col_idx"))
       => /\ HasAttr(strategy', "col_idx")
          /\ strategy'["col_idx"] = strategy["col_idx"]]_vars

\* the senders get_parser knows
KnownSenders == {<<"X", "X", "X">>, <<"Y", "Y", "Y">>, <<"Z", "Z", "Z">>, <<"W", "W", "W">>}

\* the sender a header line names
SenderOf(ln) == Group(ln.m[<<"ParsingStrategy", "header">>], "firm_sender").val

\* C5: while only the header pattern is active, a line the header pattern
\* matches and whose sender is none of XXX, YYY, ZZZ, WWW ends parse_file: it
\* returns with an empty output and no exception, and no line is handled
\* after it.
C5_UnknownSenderStops ==
    [][/\ (/\ pc = "loop"
           /\ curr_regex_dict = GetHeaderRxDict
           /\ nread' = nread + 1
           /\ <<"ParsingStrategy", "header">> \in DOMAIN line'.m
           /\ SenderOf(line') \notin KnownSenders)
          => (/\ pc' = "returned"
              /\ exc' = NoExc
              /\ file_rows' = << >>
              /\ strategy' = Unbound)
       /\ (pc = "returned")
          => (nread' = nread /\ file_rows' = file_rows /\ exc' = NoExc)]_vars

\* C5 witness: parse_file returned at a header line of an unknown sender that
\* was not the first line of the file.
C5_Witness ==
    /\ pc = "returned"
    /\ line = H_QQQ
    /\ key = "header"
    /\ nread > 1
    /\ file_rows = << >>

\* row_data of the on_table_row of grammar cls
RowDataOf(cls, text) ==
    CASE cls = "ParserForXXX" -> RowDataXXX(text)
      [] cls = "ParserForYYY" -> RowDataYYY(text)
      [] cls = "ParserForZZZ" -> RowDataZZZ(text)
      [] cls = "ParserForWWW" -> RowDataWWW(text)

\* the statements the on_table_row of the strategy s executes for a row
StmtsOf(s, text) ==
    CASE s["class"] = "ParserForXXX" -> StmtsXXX
      [] s["class"] = "ParserForYYY" -> StmtsYYY
      [] s["class"] = "ParserForZZZ" -> StmtsZZZ
      [] s["class"] = "ParserForWWW" -> StmtsWWW(s, RowDataWWW(text))

\* the number of '/' in a token
Slashes(tok) == Cardinality({i \in 1..Len(tok) : tok[i] = "/"})

\* the columns whose token holds a joint bid/ask price in the layout of cls
PriceColumns(cls) == IF cls = "ParserForYYY" THEN {} ELSE {"p_price", "c_price"}

\* the index of column name lies beyond the token list rd
Beyond(s, rd, name) == s["col_idx"][name] + 1 > Len(rd)

\* a bound strategy with the column-index map of its own table header
Bound(s) ==
    /\ IsStrategy(s)
    /\ HasAttr(s, "col_idx")
    /\ HasAttr(s, "pq")

\* a statement of stmts reads a column whose index lies beyond the token list rd
ReadsBeyond(s, rd, stmts) ==
    \E k \in 1..Len(stmts) :
        /\ stmts[k].op \in {"col", "bidask", "test"}
        /\ Beyond(s, rd, stmts[k].name)

\* the token of column name is there and does not split on '/' into two parts
NoSplit(s, rd, name) ==
    /\ ~Beyond(s, rd, name)
    /\ Slashes(rd[s["col_idx"][name] + 1]) # 1

\* C6 as stated: while bound, a line classified as table_row whose token list
\* is shorter than a column index the grammar reads, or one of whose joint
\* bid/ask tokens does not split on '/' into two parts, makes parse_file
\* raise, and no record of the row reaches the output.
C6_MalformedRowRaises ==
    [][(/\ Handled("table_row")
        /\ Bound(strategy)
        /\ \E rd \in {RowDataOf(strategy["class"], line'.text)} :
           \E stmts \in {StmtsOf(strategy, line'.text)} :
               \/ ReadsBeyond(strategy, rd, stmts)
               \/ \E name \in PriceColumns(strategy["class"]) : NoSplit(strategy, rd, name))
       => /\ pc' = "raised"
          /\ exc' # NoExc
          /\ file_rows' = file_rows]_vars

\* C6 amended: while bound, a line classified as table_row for which a token
\* the grammar reads for that row lies beyond the token list, or a joint
\* bid/ask token the grammar reads for that row does not split on '/' into two
\* parts, makes parse_file raise, and no record of the row reaches the output
\* (WWW reads the call-leg tokens only when the call strike is not '-').
C6_ReadTokenMalformedRaises ==
    [][(/\ Handled("table_row")
        /\ Bound(strategy)
        /\ \E rd \in {RowDataOf(strategy["class"], line'.text)} :
           \E stmts \in {StmtsOf(strategy, line'.text)} :
               \/ ReadsBeyond(strategy, rd, stmts)
               \/ \E k \in 1..Len(stmts) :
                      stmts[k].op = "bidask" /\ NoSplit(strategy, rd, stmts[k].name))
       => /\ pc' = "raised"
          /\ exc' # NoExc
          /\ file_rows' = file_rows]_vars

\* C6 witness: after a row was decoded, a malformed row made parse_file raise
\* and added no record.
C6_Witness ==
    /\ pc = "raised"
    /\ key = "table_row"
    /\ exc \in {"IndexError", "ValueError"}
    /\ Len(file_rows) = 2
    /\ Bound(strategy)

\* C7 as stated: when a run of read_feed_files has ended, by returning or by
\* an exception of parse_file, every file of the batch has been opened.
C7_EveryFileAttempted == pc \in {"done", "raised"} => fileno = nfiles

\* the records alternate Put, Call
PutThenCall(rows) ==
    /\ Len(rows) % 2 = 0
    /\ \A i \in 1..Len(rows) :
           FieldOf(rows[i], "option_type") = IF i % 2 = 1 THEN <<"P">> ELSE <<"C">>

\* C8: an on_table_row call that returns yields exactly two records, a Put
\* then a Call, which parse_file appends; the output of parse_file has even
\* length and alternates Put, Call.
C8_PutThenCall ==
    /\ PutThenCall(file_rows)
    /\ (pc = "loop" /\ key = "table_row") =>
           /\ Len(row_pair) = 2
           /\ PutThenCall(row_pair)
           /\ Len(file_rows) >= 2
           /\ SubSeq(file_rows, Len(file_rows) - 1, Len(file_rows)) = row_pair

\* C8 witness: rows of a file were decoded, the last of them a row with the
\* placeholder '-' for the call strike.
C8_Witness ==
    /\ pc = "loop"
    /\ key = "table_row"
    /\ line = R_WWW_DASH
    /\ Len(file_rows) = 4

\* the attributes of a record that hold row-level values
RowLevel == {"strike_px", "strike_spd", "bid_price", "ask_price", "delta",
             "iv_spd", "iv_bps", "iv_px"}

\* the values a row supplies: its tokens and the parts of its tokens around '/'
Supplied(rd) ==
    {rd[i] : i \in 1..Len(rd)}
        \cup UNION {{SplitSep(rd[i], "/")[j] : j \in 1..Len(SplitSep(rd[i], "/"))} :
                       i \in 1..Len(rd)}

\* C9: every row-level field of the records an on_table_row call returns is
\* absent or a value the row of that call supplies, whatever rows were
\* decoded before it on the same session.
C9_NoStaleRowValue ==
    [][(Handled("table_row") /\ pc' = "loop" /\ IsStrategy(strategy))
       => \A rd \in {RowDataOf(strategy["class"], line'.text)} :
              \A i \in 1..Len(row_pair') : \A a \in RowLevel :
                  \/ FieldOf(row_pair'[i], a) = << >>
                  \/ FieldOf(row_pair'[i], a) \in Supplied(rd)]_vars

\* C9 witness: two rows with different values were decoded one after the
\* other on one session.
C9_Witness ==
    /\ pc = "loop"
    /\ key = "table_row"
    /\ Len(file_rows) = 4
    /\ \A a \in {"strike_px", "bid_price", "ask_price", "delta"} :
           /\ FieldOf(file_rows[1], a) # << >>
           /\ FieldOf(file_rows[1], a) # FieldOf(file_rows[3], a)

\* the token of column name in the row
Token(s, rd, name) == rd[s["col_idx"][name] + 1]

\* C10: for the WWW grammar, a row whose call-strike token is '-' and whose
\* on_table_row call returns yields a Put record holding the values of the
\* row's put columns and then a Call record whose row-level fields are all
\* absent.
C10_MissingCallLeg ==
    [][(/\ Handled("table_row")
        /\ pc' = "loop"
        /\ Bound(strategy)
        /\ strategy["class"] = "ParserForWWW"
        /\ \E rd \in {RowDataWWW(line'.text)} :
               /\ ~Beyond(strategy, rd, "c_strike_px")
               /\ Token(strategy, rd, "c_strike_px") = <<"-">>)
       => \A rd \in {RowDataWWW(line'.text)} :
              /\ Len(row_pair') = 2
              /\ FieldOf(row_pair'[1], "option_type") = <<"P">>
              /\ FieldOf(row_pair'[1], "strike_px") = Token(strategy, rd, "p_strike_px")
              /\ <<FieldOf(row_pair'[1], "bid_price"), FieldOf(row_pair'[1], "ask_price")>>
                     = SplitSep(Token(strategy, rd, "p_price"), "/")
              /\ FieldOf(row_pair'[1], "delta") = Token(strategy, rd, "p_delta")
              /\ FieldOf(row_pair'[1], "iv_spd") = Token(strategy, rd, "p_iv_spd")
              /\ FieldOf(row_pair'[1], "iv_bps") = Token(strategy, rd, "p_iv_bps")
              /\ FieldOf(row_pair'[1], "strike_spd") = << >>
              /\ FieldOf(row_pair'[1], "iv_px") = << >>
              /\ FieldOf(row_pair'[2], "option_type") = <<"C">>
              /\ \A a \in RowLevel : FieldOf(row_pair'[2], a) = << >>]_vars

\* C10 witness: the WWW grammar decoded its row with the placeholder '-'.
C10_Witness ==
    /\ pc = "loop"
    /\ key = "table_row"
    /\ line = R_WWW_DASH
    /\ strategy["class"] = "ParserForWWW"
    /\ Len(row_pair) = 2
    /\ FieldOf(row_pair[1], "strike_px") = <<"1", "0", "6">>

(***************************************************************************)
(* Claims about transform_data.                                            *)
(***************************************************************************)
\* the step of main in which transform_data runs; every step of main changes
\* pc, and the claims about it are stated of the steps that do
Transformed == pc = "done" /\ pc' = "transformed"

\* the numbers x and y satisfy x * f = y
Times(x, f, y) == ~x.nan /\ ~y.nan /\ x.n * f * (10 ^ y.k) = y.n * (10 ^ x.k)

\* C11: transform_data leaves a present bid and ask price of a record of
\* sender XXX at the value read from its text (2.65 stays 2.65) and makes
\* the bid and ask price of a record of any other sender that value divided
\* by 100, once (155.5 becomes 1.555); no record is added, dropped or moved.
C11_RescaleOnce ==
    [][Transformed =>
          /\ Len(all_data') = Len(all_data)
          /\ \A i \in 1..Len(all_data) : \A a \in {"bid_price", "ask_price"} :
                \A before \in {ToNumeric(FieldOf(all_data[i], a))} :
                \A after \in {FieldOf(all_data'[i], a)} :
                   /\ FieldOf(all_data'[i], "firm_sender") = FieldOf(all_data[i], "firm_sender")
                   /\ ~before.nan =>
                         IF FieldOf(all_data[i], "firm_sender") = <<"X", "X", "X">>
                         THEN Times(after, 1, before)
                         ELSE Times(after, 100, before)]_pc

\* a frame of an XXX file and a YYY file after transform_data: the XXX bid
\* 2.650 reads 2.65 and the YYY bid 155.5 reads 1.555
C11_Witness ==
    /\ pc = "transformed"
    /\ \E i \in 1..Len(all_data) :
          /\ FieldOf(all_data[i], "firm_sender") = <<"X", "X", "X">>
          /\ FieldOf(all_data[i], "bid_price") = [nan |-> FALSE, n |-> 265, k |-> 2]
    /\ \E i \in 1..Len(all_data) :
          /\ FieldOf(all_data[i], "firm_sender") = <<"Y", "Y", "Y">>
          /\ FieldOf(all_data[i], "bid_price") = [nan |-> FALSE, n |-> 1555, k |-> 3]

\* C12: transform_data raises nothing, and every numeric field whose text is
\* empty or is no numeral is NaN afterwards (not zero), the bid and ask price
\* of a sender other than XXX included, which are divided by 100.
C12_MissingStaysMissing ==
    [][Transformed =>
          /\ exc' = NoExc
          /\ \A i \in 1..Len(all_data) : \A j \in 1..Len(NumericColumns) :
                ~IsNumeral(FieldOf(all_data[i], NumericColumns[j]))
                    => FieldOf(all_data'[i], NumericColumns[j]).nan]_pc

\* a transformed frame with a YYY record whose bid text was '--' and whose
\* spread text was 'n/a', and a WWW record with an empty call leg
C12_Witness ==
    /\ pc = "transformed"
    /\ \E i \in 1..Len(all_data) :
          /\ FieldOf(all_data[i], "firm_sender") = <<"Y", "Y", "Y">>
          /\ FieldOf(all_data[i], "bid_price").nan
          /\ FieldOf(all_data[i], "strike_spd").nan
          /\ ~FieldOf(all_data[i], "strike_px").nan
    /\ \E i \in 1..Len(all_data) :
          /\ FieldOf(all_data[i], "firm_sender") = <<"W", "W", "W">>
          /\ FieldOf(all_data[i], "ask_price").nan
          /\ FieldOf(all_data[i], "strike_px").nan

Rank(k) ==
    CASE k = "header" -> 0 [] k = "subject" -> 1 [] k = "table_expiry" -> 2
      [] k = "table_header" -> 3 [] k = "table_row" -> 4

\* the objects s and t differ in attribute a at most
SameBut(s, t, a) ==
    /\ DOMAIN s \ {a} = DOMAIN t \ {a}
    /\ \A x \in DOMAIN s \ {a} : s[x] = t[x]

\* the pattern with key k of the active set rd matches the line ln
MatchesKey(rd, k, ln) == \E i \in 1..Len(rd) : rd[i][2] = k /\ Search(rd[i], ln)

\* C14: the active set lists its patterns in the order subject, table_expiry,
\* table_header, table_row, and a line is classified by the first of them
\* that matches it; the handler of that key alone can act on the line.  A
\* line that matches the table_header and the table_row pattern is
\* classified table_header and never decoded as a row: the output is
\* unchanged, and nothing at all changes when the flag is already set.
C14_FirstPatternWins ==
    [][(pc = "loop" /\ nread' = nread + 1) =>
          \A rd \in {curr_regex_dict} : \A ln \in {line'} :
             /\ \A i, j \in 1..Len(rd) : i < j => Rank(rd[i][2]) < Rank(rd[j][2])
             /\ IF \E i \in 1..Len(rd) : Search(rd[i], ln)
                THEN \E i \in 1..Len(rd) :
                        /\ Search(rd[i], ln)
                        /\ \A j \in 1..(i - 1) : ~Search(rd[j], ln)
                        /\ key' = rd[i][2]
                ELSE key' = NoKey
             /\ key' \in {"subject", "table_expiry"}
                   => /\ SameBut(strategy, strategy', "pq")
                      /\ file_rows' = file_rows
                      /\ matched_table_header' = matched_table_header
             /\ key' = "table_header"
                   => /\ SameBut(strategy, strategy', "col_idx")
                      /\ file_rows' = file_rows
             /\ key' = "table_row"
                   => /\ SameBut(strategy, strategy', "pq")
                      /\ matched_table_header' = matched_table_header
             /\ (MatchesKey(rd, "table_header", ln) /\ MatchesKey(rd, "table_row", ln))
                   => /\ key' = "table_header"
                      /\ file_rows' = file_rows
                      /\ row_pair' = row_pair
                      /\ matched_table_header
                            => (strategy' = strategy /\ pc' = "loop" /\ exc' = NoExc)
      ]_vars

\* an XXX file whose sixth line matches the table_header and the table_row
\* pattern, after a table header and a row were handled
C14_Witness ==
    /\ pc = "loop"
    /\ line = T_XXX_NUM
    /\ key = "table_header"
    /\ MatchesKey(curr_regex_dict, "table_row", line)
    /\ matched_table_header
    /\ Len(file_rows) = 2
    /\ nread = 6

\* the class get_parser makes for a known sender
ClassOf(sender) ==
    CASE sender = <<"X", "X", "X">> -> "ParserForXXX"
      [] sender = <<"Y", "Y", "Y">> -> "ParserForYYY"
      [] sender = <<"Z", "Z", "Z">> -> "ParserForZZZ"
      [] sender = <<"W", "W", "W">> -> "ParserForWWW"

\* the header pattern matches the line
IsHeader(ln) == <<"ParsingStrategy", "header">> \in DOMAIN ln.m

\* C15: parse_file starts with no strategy bound and the header pattern
\* alone active.  While no strategy is bound only the header pattern is
\* active; a line it does not match is skipped (no handler runs, nothing is
\* emitted, nothing is raised), whatever other pattern of any grammar the
\* line would match; a strategy is bound, and the active set replaced, only
\* by a header line whose sender is XXX, YYY, ZZZ or WWW.
C15_SeekingHeader ==
    [][/\ (pc = "idle" /\ pc' = "loop")
            => /\ strategy' = Unbound
               /\ curr_regex_dict' = <<<<"ParsingStrategy", "header">>>>
       /\ (pc = "loop" /\ nread' = nread + 1 /\ strategy = Unbound)
            => /\ curr_regex_dict = <<<<"ParsingStrategy", "header">>>>
               /\ file_rows = << >>
               /\ ~IsHeader(line')
                     => /\ key' = NoKey
                        /\ strategy' = Unbound
                        /\ curr_regex_dict' = curr_regex_dict
                        /\ file_rows' = << >>
                        /\ row_pair' = << >>
                        /\ matched_table_header' = FALSE
                        /\ pc' = "loop"
                        /\ exc' = NoExc
               /\ (strategy' # Unbound \/ curr_regex_dict' # curr_regex_dict)
                     => /\ IsHeader(line')
                        /\ SenderOf(line') \in KnownSenders
                        /\ strategy'["class"] = ClassOf(SenderOf(line'))
       /\ (pc = "loop" /\ nread' = nread + 1 /\ strategy # Unbound)
            => \A i \in 1..Len(curr_regex_dict) : curr_regex_dict[i][2] # "header"]_vars

\* four lines into a file with no header yet, the last of them a well-formed
\* WWW row: still no strategy, no record
C15_Witness ==
    /\ pc = "loop"
    /\ strategy = Unbound
    /\ nread = 4
    /\ line = R_WWW1
    /\ key = NoKey
    /\ file_rows = << >>

\* no pattern of the active set rd matches the line ln
Unmatched(rd, ln) == \A i \in 1..Len(rd) : ~Search(rd[i], ln)

\* C16: a line no pattern of the active set matches changes nothing but the
\* loop variable and raises nothing: the output, the strategy with its
\* template and column map, the active set and the table-header flag stay
\* as they are.  No step reads the line or the key of the iteration before,
\* so a file with such lines inserted is parsed to the same result.
C16_UnmatchedLineSkipped ==
    [][(pc = "loop" /\ nread' = nread + 1) =>
          /\ Unmatched(curr_regex_dict, line')
                => /\ key' = NoKey
                   /\ file_rows' = file_rows
                   /\ strategy' = strategy
                   /\ curr_regex_dict' = curr_regex_dict
                   /\ matched_table_header' = matched_table_header
                   /\ row_pair' = row_pair
                   /\ pc' = "loop"
                   /\ exc' = NoExc
          /\ Locals' = LoopBody([Locals EXCEPT !.line = NoLine, !.key = NoKey], line')
      ]_vars

\* a blank line after the row of a bound XXX file
C16_Witness ==
    /\ pc = "loop"
    /\ line = X_BLANK
    /\ key = NoKey
    /\ strategy["class"] = "ParserForXXX"
    /\ matched_table_header
    /\ Len(file_rows) = 2
    /\ nread = 6

\* C17: binding replaces the active set by the patterns of the variant,
\* which hold no header pattern; a header line met while a strategy is
\* bound, whatever sender it names, is skipped: the strategy with its
\* template (sender, date, time) and column map, the active set, the
\* table-header flag and the output stay as they are, and the loop goes on.
C17_HeaderOnlyOnce ==
    [][(pc = "loop" /\ nread' = nread + 1) =>
          /\ (strategy = Unbound /\ curr_regex_dict' # curr_regex_dict)
                => \A i \in 1..Len(curr_regex_dict') : curr_regex_dict'[i][2] # "header"
          /\ (strategy # Unbound /\ IsHeader(line'))
                => /\ key' = NoKey
                   /\ strategy' = strategy
                   /\ \A a \in {"firm_sender", "date", "time"} :
                         TemplateValue(strategy', a) = TemplateValue(strategy, a)
                   /\ curr_regex_dict' = curr_regex_dict
                   /\ matched_table_header' = matched_table_header
                   /\ file_rows' = file_rows
                   /\ pc' = "loop"
                   /\ exc' = NoExc
      ]_vars

\* a header line of sender YYY as the sixth line of an XXX file that has a
\* table header and a row behind it: the template still names XXX
C17_Witness ==
    /\ pc = "loop"
    /\ line = H_YYY
    /\ key = NoKey
    /\ strategy["class"] = "ParserForXXX"
    /\ TemplateValue(strategy, "firm_sender") = <<"X", "X", "X">>
    /\ matched_table_header
    /\ Len(file_rows) = 2
    /\ nread = 6

\* the strategy holds all a record is made from: a template with the header
\* fields, an expiration and a reference price, and a column map
Complete(s) ==
    /\ HasAttr(s, "pq")
    /\ HasAttr(s, "col_idx")
    /\ \A a \in {"firm_sender", "date", "time", "expire_date", "ref_px"} : HasAttr(s["pq"], a)

\* attribute a of the template of s has been set
TemplateHas(s, a) == HasAttr(s, "pq") /\ HasAttr(s["pq"], a)

\* C18: the template gets its header fields only at a header line, its
\* expiration only at an expiry line, its reference price only at a subject
\* line or at an expiry line of ZZZ, and the strategy gets its column map
\* only at a table-header line.  A line classified as table_row appends
\* records only when all of them are there; when one is missing parse_file
\* raises and appends nothing.
C18_RowNeedsFullTemplate ==
    [][(pc = "loop" /\ nread' = nread + 1) =>
          /\ (~HasAttr(strategy, "pq") /\ HasAttr(strategy', "pq")) => key' = "header"
          /\ (~HasAttr(strategy, "col_idx") /\ HasAttr(strategy', "col_idx"))
                => key' = "table_header"
          /\ (~TemplateHas(strategy, "expire_date") /\ TemplateHas(strategy', "expire_date"))
                => key' = "table_expiry"
          /\ (~TemplateHas(strategy, "ref_px") /\ TemplateHas(strategy', "ref_px"))
                => \/ key' = "subject"
                   \/ key' = "table_expiry" /\ strategy["class"] = "ParserForZZZ"
          /\ file_rows' # file_rows => (key' = "table_row" /\ Complete(strategy))
          /\ (key' = "table_row" /\ ~Complete(strategy))
                => /\ pc' = "raised"
                   /\ exc' # NoExc
                   /\ file_rows' = file_rows
      ]_vars

\* a YYY file of header, expiry line, table header and row, with no subject
\* line: the row finds no reference price and parse_file raises
C18_Witness ==
    /\ pc = "raised"
    /\ exc = "AttributeError"
    /\ key = "table_row"
    /\ line = R_YYY1
    /\ HasAttr(strategy, "col_idx")
    /\ TemplateHas(strategy, "expire_date")
    /\ ~TemplateHas(strategy, "ref_px")
    /\ file_rows = << >>

\* the sequence s starts with the sequence t
StartsWith(s, t) == Len(s) >= Len(t) /\ SubSeq(s, 1, Len(t)) = t

\* the columns of the put leg that hold one value, per grammar
PutColumns(cls) ==
    CASE cls = "ParserForXXX" -> { }
      [] cls = "ParserForYYY" -> {<<"bid_price", "p_bid_price">>, <<"ask_price", "p_ask_price">>,
                                  <<"delta", "p_delta">>}
      [] cls = "ParserForZZZ" -> {<<"delta", "p_delta">>}
      [] cls = "ParserForWWW" -> {<<"delta", "p_delta">>, <<"strike_px", "p_strike_px">>}

\* the grammar reads the bid and ask of the put leg from one token
PutPriceToken(cls) == cls \in {"ParserForXXX", "ParserForZZZ", "ParserForWWW"}

\* C19: the output of parse_file and all_data only grow at their end: every
\* record already in them keeps every field, whatever line is handled next
\* (a row, a subject line, an expiry line).  The Put record of a row is a
\* copy made before the template is overwritten for the Call leg and reset:
\* it holds option type P and the put columns of the row, while the
\* template's row-level fields are empty after the row.
C19_RecordsAreSnapshots ==
    [][/\ pc = "loop" => StartsWith(file_rows', file_rows)
       /\ StartsWith(all_data', all_data)
       /\ (Handled("table_row") /\ pc' = "loop" /\ Bound(strategy))
            => \A rd \in {RowDataOf(strategy["class"], line'.text)} :
                  /\ file_rows' = file_rows \o row_pair'
                  /\ FieldOf(row_pair'[1], "option_type") = <<"P">>
                  /\ \A c \in PutColumns(strategy["class"]) :
                        FieldOf(row_pair'[1], c[1]) = Token(strategy, rd, c[2])
                  /\ PutPriceToken(strategy["class"])
                        => <<FieldOf(row_pair'[1], "bid_price"),
                             FieldOf(row_pair'[1], "ask_price")>>
                               = SplitSep(Token(strategy, rd, "p_price"), "/")
                  /\ \A a \in RowLevel : TemplateValue(strategy', a) = << >>]_vars

\* a second expiry line after the row of an XXX file: the template holds
\* the new expiration, the two records keep the one they were made with,
\* and the Put record keeps a bid the Call record does not have
C19_Witness ==
    /\ pc = "loop"
    /\ key = "table_expiry"
    /\ line = E_XXX2
    /\ Len(file_rows) = 2
    /\ FieldOf(file_rows[1], "expire_date") # TemplateValue(strategy, "expire_date")
    /\ FieldOf(file_rows[1], "bid_price") # FieldOf(file_rows[2], "bid_price")
    /\ FieldOf(file_rows[1], "bid_price") # << >>

=============================================================================
